---- MODULE Spec2Model ----
(***************************************************************************)
(* Model of the dispatch core of the router: Router.handle and its next() *)
(* trampoline, process_params, Layer.match / handle_request /             *)
(* handle_error, and Route.dispatch.                                      *)
(*                                                                         *)
(* Strings that the code slices (req.url, req.baseUrl, layer.path) are     *)
(* sequences of one-character strings.  The synchronous JavaScript call    *)
(* stack is the variable cs: one frame per layer whose process_params      *)
(* callback (Router) or method branch (Route) is still on the stack; a     *)
(* frame catches while the layer's function runs inside the try of         *)
(* Layer.handle_request / Layer.handle_error.                              *)
(***************************************************************************)
EXTENDS Integers, Sequences, FiniteSets, TLC

VARIABLES
  stack,    \* [main, sub]: router.stack of the outer router and of the mountable sub-router
  params,   \* [main, sub]: router.params, name -> number of registered callbacks
  phase,    \* "setup" while the application registers, "run" once a request was handed in
  req,      \* the request object
  ctx,      \* closure variables of every handle()/dispatch() activation, by level
  lm,       \* layer.params / layer.path of every router-level Layer (the match cache)
  cs,       \* synchronous call stack
  cur,      \* the handler function that is running and has not yet acted
  pend,     \* setImmediate tasks and continuations a handler kept for later
  res,      \* the response
  out,      \* arguments of the calls of the terminal callback `out` of the outer handle
  esc,      \* exceptions that left the dispatch uncaught
  inv,      \* layer functions invoked so far, in order
  pcalls,   \* layers with keys handed to process_params, param callbacks invoked
  last,     \* what the most recent handler did, and how many layer functions had been invoked by then
  nreg,     \* number of registration calls made
  proto,    \* the application whose request / response prototype req and res have; orig of mounted_app
  subapp    \* mountpath and parent of the application object that owns the sub-router

vars == <<stack, params, phase, req, ctx, lm, cs, cur, pend, res, out, esc, inv, pcalls, last, nreg,
          proto, subapp>>

----------------------------------------------------------------------------
\* Bounds of the model

\* registration calls made on top of the initial application
MaxReg == 2

\* the re-entrancy limit of next (index.js and route.js: ++sync > 100)
SyncLimit == 100

----------------------------------------------------------------------------
\* Values

NoErr == "undefined"
ErrRoute == "route"
ErrRouter == "router"
\* the error values application handlers pass or throw
AppErrors == {"e1", "e2"}
\* thrown by the strict-mode assignment to the undeclared paramCalled
RefErr == "ReferenceError"
\* thrown by decode_param: URIError with status = statusCode = 400
URIErr == "URIError400"

\* paths and patterns
P_root == <<"/">>
P_a == <<"/", "a">>
P_id == <<"/", ":", "i", "d">>
P_star == <<"*">>

U_a == <<"/", "a">>
U_a_slash == <<"/", "a", "/">>
U_a_a_q == <<"/", "a", "/", "a", "?", "q">>
U_abs == <<"h", ":", "/", "/", "x", "/", "a", "/", "a">>
U_bad == <<"/", "%">>
\* req.url of a request that has none (undefined), and the pathname
\* getPathname returns for it (undefined)
U_none == <<"undefined">>
NoPath == <<"undefined">>

Drop(s, n) == SubSeq(s, n + 1, Len(s))
Take(s, n) == SubSeq(s, 1, n)
StartsWith(s, p) == Len(s) >= Len(p) /\ Take(s, Len(p)) = p
IndexOf(s, c) == IF \E i \in 1..Len(s) : s[i] = c
                 THEN CHOOSE i \in 1..Len(s) : s[i] = c /\ \A j \in 1..(i - 1) : s[j] # c
                 ELSE 0

NoParams == [k \in {} |-> <<>>]

----------------------------------------------------------------------------
\* Layers and the registered configuration

\* new Layer(path, {end}, fn): kind tells what fn is ("fn": an application
\* handler, "route": route.dispatch bound to its Route, "router": the
\* sub-router function, "app": mounted_app of the application that owns the
\* sub-router); arity is fn.length; method, rstack and methods are
\* layer.method, route.stack and route.methods
Layer(path, end, kind, arity, method) ==
  [path |-> path, end |-> end, kind |-> kind, arity |-> arity,
   method |-> method, rstack |-> <<>>, methods |-> {}]

\* A level is one activation of Router.handle or Route.dispatch, named by the
\* stack indices that lead to it: <<>> is the outer router's handle, <<i>> the
\* Route or sub-router invoked by layer i of the outer stack, <<i, j>> the
\* Route invoked by layer j of the sub-router mounted at layer i.
Parent(lv) == Take(lv, Len(lv) - 1)
IsMount(layer) == layer.kind \in {"router", "app"}
IsRouter(lv) == lv = <<>> \/ (Len(lv) = 1 /\ IsMount(stack.main[lv[1]]))
RouterOf(lv) == IF lv = <<>> THEN "main" ELSE "sub"
StackOf(lv) ==
  IF lv = <<>> THEN stack.main
  ELSE IF Len(lv) = 1
       THEN (IF IsMount(stack.main[lv[1]]) THEN stack.sub ELSE stack.main[lv[1]].rstack)
       ELSE stack.sub[lv[2]].rstack
LKey(lv, i) == <<RouterOf(lv), i>>

----------------------------------------------------------------------------
\* URL helpers

\* position of the first occurrence of the sequence p in s at or after position from, 0 if none
IndexOfSeq(s, p, from) ==
  LET hits == {i \in from..(Len(s) - Len(p) + 1) : SubSeq(s, i, i + Len(p) - 1) = p}
  IN IF hits = {} THEN 0 ELSE CHOOSE i \in hits : \A j \in hits : i <= j

getProtohost(url) ==
  IF Len(url) = 0 \/ url[1] = "/" THEN <<>>
  ELSE LET searchIndex == IndexOf(url, "?")
           pathLength == IF searchIndex # 0 THEN searchIndex - 1 ELSE Len(url)
           fqdnIndex == IndexOfSeq(Take(url, pathLength), <<":", "/", "/">>, 1)
       IN IF fqdnIndex = 0 THEN <<>>
          ELSE LET slash == IndexOfSeq(url, <<"/">>, fqdnIndex + 3)
               IN IF slash = 0 THEN <<>> ELSE Take(url, slash - 1)

\* parseUrl(req).pathname: the url without protocol and host, up to the query string
\* parseUrl(req) is undefined when req.url is, and reading its pathname throws:
\* getPathname catches the exception and returns undefined
getPathname(url) ==
  LET ph == getProtohost(url)
      rest == Drop(url, Len(ph))
      q == IndexOf(rest, "?")
  IN IF url = U_none THEN NoPath
     ELSE IF q = 0 THEN rest ELSE Take(rest, q - 1)

----------------------------------------------------------------------------
\* Layer.match

HexDigits == {"0", "1", "2", "3", "4", "5", "6", "7", "8", "9"}

\* decodeURIComponent on the alphabet of the model: %41 decodes to A, a % that
\* does not start an escape is malformed
RECURSIVE decodeOk(_)
decodeOk(val) ==
  IF val = <<>> THEN TRUE
  ELSE IF val[1] # "%" THEN decodeOk(Tail(val))
  ELSE Len(val) >= 3 /\ val[2] \in HexDigits /\ val[3] \in HexDigits /\ decodeOk(Drop(val, 3))

RECURSIVE decodeURIComponent(_)
decodeURIComponent(val) ==
  IF val = <<>> THEN <<>>
  ELSE IF val[1] # "%" THEN <<val[1]>> \o decodeURIComponent(Tail(val))
  ELSE (IF <<val[2], val[3]>> = <<"4", "1">> THEN <<"A">> ELSE <<"?">>) \o decodeURIComponent(Drop(val, 3))

\* the URIError decode_param rethrows for val, with the fields it assigns
DecodeError(val) ==
  [name |-> URIErr, status |-> 400, statusCode |-> 400,
   message |-> <<"Failed to decode param '">> \o val \o <<"'">>]

\* decode_param: [ok, v]; ok = FALSE is the URIError tagged with status 400
decode_param(val) ==
  IF Len(val) = 0 THEN [ok |-> TRUE, v |-> val]
  ELSE IF decodeOk(val) THEN [ok |-> TRUE, v |-> decodeURIComponent(val)]
  ELSE [ok |-> FALSE, v |-> val, err |-> DecodeError(val)]

\* the keys path-to-regexp collects for a pattern
Keys(path) == IF path = P_id THEN <<"id">> ELSE IF path = P_star THEN <<"0">> ELSE <<>>

\* the literal part of a pattern without its trailing slash
Literal(path) ==
  LET lit == IF path = P_id THEN <<>> ELSE path
  IN IF Len(lit) > 0 /\ lit[Len(lit)] = "/" THEN Take(lit, Len(lit) - 1) ELSE lit

\* the first path segment of s (s starts after a slash): up to the next slash
Segment(s) == LET k == IndexOf(s, "/") IN IF k = 0 THEN s ELSE Take(s, k - 1)

\* this.regexp.exec(path) for the regular expression path-to-regexp builds
\* (strict = false): ^literal(/segment)?\/? followed by $ (end) or (?=\/|$).
\* [ok, m0, caps]: match[0] and the captured groups
MatchFail == [ok |-> FALSE, m0 |-> <<>>, caps |-> <<>>]
TailOk(end, t) == IF end THEN t = <<>> ELSE (t = <<>> \/ t[1] = "/")

\* \/? and the end of the expression, after m was matched and t is left
RegexpEnd(end, m, caps, t) ==
  IF t # <<>> /\ t[1] = "/" /\ TailOk(end, Tail(t))
  THEN [ok |-> TRUE, m0 |-> Append(m, "/"), caps |-> caps]
  ELSE IF TailOk(end, t) THEN [ok |-> TRUE, m0 |-> m, caps |-> caps]
  ELSE MatchFail

\* (/segment): t is what follows the literal, seg its first segment
RegexpParam(end, lit, t, seg) ==
  IF t = <<>> \/ t[1] # "/" \/ seg = <<>> THEN MatchFail
  ELSE RegexpEnd(end, lit \o <<"/">> \o seg, <<seg>>, Drop(t, 1 + Len(seg)))

RegexpLiteral(path, end, s, lit) ==
  IF ~StartsWith(s, lit) THEN MatchFail
  ELSE IF Keys(path) = <<>> THEN RegexpEnd(end, lit, <<>>, Drop(s, Len(lit)))
  ELSE RegexpParam(end, lit, Drop(s, Len(lit)), Segment(Drop(s, Len(lit) + 1)))

RegexpExec(path, end, s) == RegexpLiteral(path, end, s, Literal(path))

\* Layer.prototype.match: [ret, set, c]; ret is "true", "false" or the error
\* decode_param threw; set tells whether this.params and this.path were
\* assigned, c holds the values assigned (pdef/pathdef = FALSE: undefined)
Cache(pdef, p, pathdef, path) == [pdef |-> pdef, params |-> p, pathdef |-> pathdef, path |-> path]
NoCache == Cache(FALSE, NoParams, FALSE, <<>>)

\* MatchParams that reports a parameter it cannot decode as no match
MatchParams_NoMatch(layer, m, v) ==
  IF v.ok
  THEN [ret |-> "true", set |-> TRUE,
        c |-> Cache(TRUE, [k \in {Keys(layer.path)[1]} |-> v.v], TRUE, m.m0)]
  ELSE [ret |-> "false", set |-> TRUE, c |-> Cache(TRUE, NoParams, TRUE, m.m0)]

\* the loop over the captured groups: v is decode_param(match[1])
MatchParams(layer, m, v) ==
  IF v.ok
  THEN [ret |-> "true", set |-> TRUE,
        c |-> Cache(TRUE, [k \in {Keys(layer.path)[1]} |-> v.v], TRUE, m.m0)]
  ELSE [ret |-> v.err.name, set |-> TRUE, c |-> Cache(TRUE, NoParams, TRUE, m.m0)]

\* match, after match = this.regexp.exec(path)
MatchRegexp(layer, m) ==
  IF ~m.ok THEN [ret |-> "false", set |-> TRUE, c |-> NoCache]
  ELSE IF m.caps = <<>> THEN [ret |-> "true", set |-> TRUE, c |-> Cache(TRUE, NoParams, TRUE, m.m0)]
  ELSE MatchParams(layer, m, decode_param(m.caps[1]))

\* MatchStar that stores the path as it is, without decoding it
MatchStar_Raw(path, v) ==
  [ret |-> "true", set |-> TRUE, c |-> Cache(TRUE, [k \in {"0"} |-> path], TRUE, path)]

\* the fast path for *: v is decode_param(path)
MatchStar(path, v) ==
  IF v.ok THEN [ret |-> "true", set |-> TRUE, c |-> Cache(TRUE, [k \in {"0"} |-> v.v], TRUE, path)]
  ELSE [ret |-> v.err.name, set |-> FALSE, c |-> NoCache]

match(layer, path) ==
  IF path = NoPath THEN [ret |-> "false", set |-> TRUE, c |-> NoCache]
  ELSE IF layer.path = P_root /\ ~layer.end
  THEN [ret |-> "true", set |-> TRUE, c |-> Cache(TRUE, NoParams, TRUE, <<>>)]
  ELSE IF layer.path = P_star THEN MatchStar(path, decode_param(path))
  ELSE MatchRegexp(layer, RegexpExec(layer.path, layer.end, path))

\* matchLayer: the exception of layer.match becomes the returned value
matchLayer(layer, path) == match(layer, path)

----------------------------------------------------------------------------
\* Route

\* Route.prototype._handles_method
handles_method(route, method) ==
  IF "_all" \in route.methods THEN TRUE
  ELSE LET lower == IF method = "GET" THEN "get" ELSE IF method = "POST" THEN "post"
                    ELSE IF method = "HEAD" THEN "head" ELSE "options"
           name == IF lower = "head" /\ "head" \notin route.methods THEN "get" ELSE lower
       IN name \in route.methods

\* toUpperCase on the keys of route.methods
UpperCase(m) == IF m = "get" THEN "GET" ELSE IF m = "post" THEN "POST"
                ELSE IF m = "head" THEN "HEAD" ELSE IF m = "_all" THEN "_ALL" ELSE "OPTIONS"

\* Object.keys(route.methods) in insertion order: the order of first
\* registration in route.stack (an untagged layer registers _all)
RECURSIVE MethodKeys(_, _)
MethodKeys(rstack, seen) ==
  IF rstack = <<>> THEN <<>>
  ELSE LET k == IF rstack[1].method = "" THEN "_all" ELSE rstack[1].method
       IN IF k \in seen THEN MethodKeys(Tail(rstack), seen)
          ELSE <<k>> \o MethodKeys(Tail(rstack), seen \cup {k})

\* Route.prototype._options
route_options(route) ==
  LET keys == MethodKeys(route.rstack, {})
      ms == IF "get" \in route.methods /\ "head" \notin route.methods
            THEN Append(keys, "head") ELSE keys
  IN [i \in 1..Len(ms) |-> UpperCase(ms[i])]

\* appendMethods that appends without looking for the method in the list
appendMethods_Duplicating(list, addition) == list \o addition

\* appendMethods(list, addition)
RECURSIVE appendMethods(_, _)
appendMethods(list, addition) ==
  IF addition = <<>> THEN list
  ELSE appendMethods(IF \E i \in 1..Len(list) : list[i] = addition[1]
                     THEN list ELSE Append(list, addition[1]),
                     Tail(addition))

----------------------------------------------------------------------------
\* The dispatch machine.  The operators below take the mutable state of one
\* request as a record d (fields req, ctx, lm, cs, cur, pend, res, out, esc,
\* inv, pcalls) and return it as the code leaves it when control either
\* reaches an application handler (d.cur.on) or returns to the event loop.

NoCur == [on |-> FALSE, lv |-> <<>>, i |-> 0, err |-> NoErr]
NoLevel == <<0>>
Undefined == [def |-> FALSE, v |-> <<>>]
Defined(v) == [def |-> TRUE, v |-> v]

SetCtx(d, lv, c) ==
  [d EXCEPT !.ctx = [l \in (DOMAIN d.ctx) \cup {lv} |-> IF l = lv THEN c ELSE d.ctx[l]]]

\* setImmediate(fn, arg)
setImmediate(d, fn, lv, arg) ==
  [d EXCEPT !.pend = @ \cup {[fn |-> fn, lv |-> lv, i |-> 0, arg |-> arg]}]

PushFrame(d, lv, i) == [d EXCEPT !.cs = Append(@, [lv |-> lv, i |-> i, try |-> FALSE])]
EnterTry(d) == [d EXCEPT !.cs[Len(d.cs)].try = TRUE]

\* the innermost frame whose try block is open, 0 if none
CatchFrame(frames) ==
  LET open == {k \in 1..Len(frames) : frames[k].try}
  IN IF open = {} THEN 0 ELSE CHOOSE k \in open : \A j \in open : j <= k

\* A call in tail position: the operators below return d with d.op naming the
\* function that runs next and its arguments; Run executes them in turn.
\* "continue" is the continuation of a level: next of Router.handle or next of
\* Route.dispatch.
Halt == [name |-> "halt", lv |-> <<>>, arg |-> NoErr]
Call(d, name, lv, arg) == [d EXCEPT !.op = [name |-> name, lv |-> lv, arg |-> arg]]
Continue(d, lv, err) == Call(d, "continue", lv, err)
Throw(d, e) == Call(d, "throw", <<>>, e)

\* the callback mounted_app passes to sub.handle: req and res get the
\* prototypes of the application they had, then next(err) of the outer router
mounted_app_next(d, lv, err) ==
  Continue([d EXCEPT !.proto.req = d.proto.orig, !.proto.res = d.proto.orig], Parent(lv), err)

\* mounted_app: var orig = req.app; sub.handle(req, res, callback).  app.handle
\* calls the callback at once when the application has no router
mounted_app(d, lv) ==
  IF StackOf(lv) = <<>> THEN mounted_app_next([d EXCEPT !.proto.orig = d.proto.req], lv, NoErr)
  ELSE Call([d EXCEPT !.proto.orig = d.proto.req], "handle", lv, NoErr)

\* Invoke with the call of fn outside any try block
Invoke_NoTry(d, lv, i, err) ==
  LET layer == StackOf(lv)[i]
      d1 == [d EXCEPT !.inv = Append(@, [lv |-> lv, i |-> i, err |-> err])]
  IN IF layer.kind = "route" THEN Call(d1, "dispatch", lv \o <<i>>, NoErr)
     ELSE IF layer.kind = "router" THEN Call(d1, "handle", lv \o <<i>>, NoErr)
     ELSE IF layer.kind = "app" THEN mounted_app(d1, lv \o <<i>>)
     ELSE [d1 EXCEPT !.cur = [on |-> TRUE, lv |-> lv, i |-> i, err |-> err]]

\* fn(req, res, next) / fn(err, req, res, next) inside the try
Invoke(d, lv, i, err) ==
  LET layer == StackOf(lv)[i]
      d1 == [EnterTry(d) EXCEPT !.inv = Append(@, [lv |-> lv, i |-> i, err |-> err])]
  IN IF layer.kind = "route" THEN Call(d1, "dispatch", lv \o <<i>>, NoErr)
     ELSE IF layer.kind = "router" THEN Call(d1, "handle", lv \o <<i>>, NoErr)
     ELSE IF layer.kind = "app" THEN mounted_app(d1, lv \o <<i>>)
     ELSE [d1 EXCEPT !.cur = [on |-> TRUE, lv |-> lv, i |-> i, err |-> err]]

\* handle_request without the test of fn.length
handle_request_AnyArity(d, lv, i) ==
  Invoke(d, lv, i, NoErr)

\* Layer.prototype.handle_request
handle_request(d, lv, i) ==
  IF StackOf(lv)[i].arity > 3 THEN Continue(d, lv, NoErr)
  ELSE Invoke(d, lv, i, NoErr)

\* Layer.prototype.handle_error
handle_error(d, lv, i, error) ==
  IF StackOf(lv)[i].arity # 4 THEN Continue(d, lv, error)
  ELSE Invoke(d, lv, i, error)

\* trim_prefix, after the prefix was validated: the rewrite of req.url and req.baseUrl
Strip(d, lv, layerPath, url1) ==
  LET c == d.ctx[lv]
      addSlash == c.protohost = <<>> /\ (url1 = <<>> \/ url1[1] # "/")
  IN [d EXCEPT !.ctx[lv].removed = layerPath, !.ctx[lv].slashAdded = addSlash,
               !.req.url = IF addSlash THEN <<"/">> \o url1 ELSE url1,
               !.req.baseUrl = Defined(c.parentUrl \o (IF layerPath[Len(layerPath)] = "/"
                                                       THEN Take(layerPath, Len(layerPath) - 1)
                                                       ELSE layerPath))]

\* trim_prefix, its last statement
TrimInvoke(d, lv, i, layerError) ==
  IF layerError # NoErr THEN handle_error(d, lv, i, layerError)
  ELSE handle_request(d, lv, i)

\* trim_prefix of Router.handle; ch is path[layerPath.length]
TrimChar(d, lv, i, layerError, layerPath, path, ch) ==
  IF Len(layerPath) = 0 THEN TrimInvoke(d, lv, i, layerError)
  ELSE IF layerPath # Take(path, Len(layerPath)) THEN Continue(d, lv, layerError)
  ELSE IF ch # "" /\ ch # "/" /\ ch # "." THEN Continue(d, lv, layerError)
  ELSE TrimInvoke(Strip(d, lv, layerPath,
                        d.ctx[lv].protohost \o Drop(d.req.url, Len(d.ctx[lv].protohost) + Len(layerPath))),
                  lv, i, layerError)

trim_prefix(d, lv, i, layerError, layerPath, path) ==
  TrimChar(d, lv, i, layerError, layerPath, path,
           IF Len(path) > Len(layerPath) THEN path[Len(layerPath) + 1] ELSE "")

\* proto.process_params, with the callback next passes to it: with no keys
\* done() runs the callback at once; with keys, param() reads req.params[name]
\* and params[name] and then assigns to paramCalled, which process_params does
\* not declare: under 'use strict' the assignment throws a ReferenceError
process_params(d, lv, i, layerError, path) ==
  IF Len(Keys(StackOf(lv)[i].path)) # 0
  THEN Throw([d EXCEPT !.pcalls.accepted = @ + 1], RefErr)
  ELSE IF StackOf(lv)[i].kind = "route" THEN handle_request(PushFrame(d, lv, i), lv, i)
  ELSE trim_prefix(PushFrame(d, lv, i), lv, i, layerError, d.lm[LKey(lv, i)].path, path)

\* next, from the accepted layer on: req.route, req.params, process_params
Accept(d, lv, i, layerError, path) ==
  process_params([d EXCEPT !.req.route = IF StackOf(lv)[i].kind = "route" THEN lv \o <<i>> ELSE @,
                           !.req.params = Defined(d.lm[LKey(lv, i)].params)],
                 lv, i, layerError, path)

\* the while loop of next: [d, idx, match, i, layerError]
RECURSIVE Scan(_, _, _, _, _)

\* ScanLayer with a match that stores its result on the layer only when the
\* layer holds no matched path yet
ScanLayer_CacheKept(d, lv, path, i, layerError, layer, m) ==
  LET d1 == IF m.set /\ ~d.lm[LKey(lv, i)].pathdef THEN [d EXCEPT !.lm[LKey(lv, i)] = m.c] ELSE d
      le == IF m.ret \notin {"true", "false"} /\ layerError = NoErr THEN m.ret ELSE layerError
      method == d.req.method
      has_method == handles_method(layer, method)
      d2 == IF ~has_method /\ method = "OPTIONS"
            THEN [d1 EXCEPT !.ctx[lv].options = appendMethods(@, route_options(layer))]
            ELSE d1
  IN IF m.ret = "true" /\ layer.kind # "route"
     THEN [d |-> d1, idx |-> i, match |-> TRUE, i |-> i, layerError |-> le]
     ELSE IF m.ret = "true" /\ le = NoErr /\ (has_method \/ method = "HEAD")
     THEN [d |-> d2, idx |-> i, match |-> TRUE, i |-> i, layerError |-> le]
     ELSE Scan(IF m.ret = "true" /\ le = NoErr THEN d2 ELSE d1, lv, path, i, le)

\* ScanLayer that accepts a matching Route whatever the request method is
ScanLayer_MethodIgnored(d, lv, path, i, layerError, layer, m) ==
  LET d1 == IF m.set THEN [d EXCEPT !.lm[LKey(lv, i)] = m.c] ELSE d
      le == IF m.ret \notin {"true", "false"} /\ layerError = NoErr THEN m.ret ELSE layerError
  IN IF m.ret = "true" /\ (layer.kind # "route" \/ le = NoErr)
     THEN [d |-> d1, idx |-> i, match |-> TRUE, i |-> i, layerError |-> le]
     ELSE Scan(d1, lv, path, i, le)

\* one turn of the loop: layer is stack[idx++], m is matchLayer(layer, path)
ScanLayer(d, lv, path, i, layerError, layer, m) ==
  LET d1 == IF m.set THEN [d EXCEPT !.lm[LKey(lv, i)] = m.c] ELSE d
      le == IF m.ret \notin {"true", "false"} /\ layerError = NoErr THEN m.ret ELSE layerError
      method == d.req.method
      has_method == handles_method(layer, method)
      d2 == IF ~has_method /\ method = "OPTIONS"
            THEN [d1 EXCEPT !.ctx[lv].options = appendMethods(@, route_options(layer))]
            ELSE d1
  IN IF m.ret = "true" /\ layer.kind # "route"
     THEN [d |-> d1, idx |-> i, match |-> TRUE, i |-> i, layerError |-> le]
     ELSE IF m.ret = "true" /\ le = NoErr /\ (has_method \/ method = "HEAD")
     THEN [d |-> d2, idx |-> i, match |-> TRUE, i |-> i, layerError |-> le]
     ELSE Scan(IF m.ret = "true" /\ le = NoErr THEN d2 ELSE d1, lv, path, i, le)

Scan(d, lv, path, idx, layerError) ==
  IF idx >= Len(StackOf(lv))
  THEN [d |-> d, idx |-> idx, match |-> FALSE, i |-> 0, layerError |-> layerError]
  ELSE ScanLayer(d, lv, path, idx + 1, layerError, StackOf(lv)[idx + 1],
                 matchLayer(StackOf(lv)[idx + 1], path))

\* NextFound with idx left where the loop started when the accepted layer is
\* a middleware function about to run
NextFound_IdxKept(lv, s, path) ==
  IF ~s.match THEN Call([s.d EXCEPT !.ctx[lv].idx = s.idx], "done", lv, s.layerError)
  ELSE IF StackOf(lv)[s.i].kind = "fn" /\ StackOf(lv)[s.i].arity = 3 /\ s.layerError = NoErr
  THEN Accept(s.d, lv, s.i, s.layerError, path)
  ELSE Accept([s.d EXCEPT !.ctx[lv].idx = s.idx], lv, s.i, s.layerError, path)

\* next, after the loop
NextFound(lv, s, path) ==
  IF ~s.match THEN Call([s.d EXCEPT !.ctx[lv].idx = s.idx], "done", lv, s.layerError)
  ELSE Accept([s.d EXCEPT !.ctx[lv].idx = s.idx], lv, s.i, s.layerError, path)

\* NextPath that routes a request without a pathname as a request for '/'
NextPath_SlashAssumed(d, lv, layerError, path) ==
  NextFound(lv, Scan(d, lv, IF path = NoPath THEN P_root ELSE path, d.ctx[lv].idx, layerError),
            IF path = NoPath THEN P_root ELSE path)

\* next, from `var path = getPathname(req)` on: no pathname, no matching
NextPath(d, lv, layerError, path) ==
  IF path = NoPath THEN Call(d, "done", lv, layerError)
  ELSE NextFound(lv, Scan(d, lv, path, d.ctx[lv].idx, layerError), path)

\* NextGuard without the re-entrancy guard
NextGuard_Unguarded(d, lv, err, layerError, path) == NextPath(d, lv, layerError, path)

\* next, from the re-entrancy guard on
NextGuard(d, lv, err, layerError, path) ==
  IF d.ctx[lv].sync > SyncLimit THEN setImmediate(d, "next", lv, err)
  ELSE NextPath(d, lv, layerError, path)

\* NextRestored with 'router' handed to done as the error
NextRestored_SentinelToDone(d, lv, err, layerError) ==
  IF layerError = ErrRouter THEN setImmediate(d, "done", lv, layerError)
  ELSE IF d.ctx[lv].idx >= Len(StackOf(lv)) THEN setImmediate(d, "done", lv, layerError)
  ELSE NextGuard([d EXCEPT !.ctx[lv].sync = @ + 1], lv, err, layerError, getPathname(d.req.url))

\* next, after req.url and req.baseUrl were restored
NextRestored(d, lv, err, layerError) ==
  IF layerError = ErrRouter THEN setImmediate(d, "done", lv, NoErr)
  ELSE IF d.ctx[lv].idx >= Len(StackOf(lv)) THEN setImmediate(d, "done", lv, layerError)
  ELSE NextGuard([d EXCEPT !.ctx[lv].sync = @ + 1], lv, err, layerError, getPathname(d.req.url))

\* next: remove the added slash, restore the altered req.url
Restore(d, lv, url1) ==
  LET c == d.ctx[lv]
  IN [d EXCEPT !.req.url = IF c.removed # <<>>
                           THEN c.protohost \o c.removed \o Drop(url1, Len(c.protohost)) ELSE url1,
               !.req.baseUrl = IF c.removed # <<>> THEN Defined(c.parentUrl) ELSE @,
               !.ctx[lv].slashAdded = FALSE, !.ctx[lv].removed = <<>>]

\* next(err) of Router.handle
next(d, lv, err) ==
  NextRestored(Restore(d, lv, IF d.ctx[lv].slashAdded THEN Tail(d.req.url) ELSE d.req.url),
               lv, err, IF err = ErrRoute THEN NoErr ELSE err)

\* done whose OPTIONS wrapper does not look at the error
done_OptionsDespiteError(d, lv, err) ==
  LET c == d.ctx[lv]
  IN IF d.req.method = "OPTIONS" /\ Len(c.options) # 0
     THEN [d EXCEPT !.res = [@ EXCEPT !.sent = TRUE, !.allow = c.options, !.body = c.options]]
     ELSE IF lv = <<>> THEN [d EXCEPT !.out = Append(@, err)]
     ELSE Continue(d, Parent(lv), err)

\* done that calls out without putting back what handle saved
done_Unrestored(d, lv, err) ==
  LET c == d.ctx[lv]
  IN IF d.req.method = "OPTIONS" /\ err = NoErr /\ Len(c.options) # 0
     THEN [d EXCEPT !.res = [@ EXCEPT !.sent = TRUE, !.allow = c.options, !.body = c.options]]
     ELSE IF lv = <<>> THEN [d EXCEPT !.out = Append(@, err)]
     ELSE IF StackOf(Parent(lv))[lv[Len(lv)]].kind = "app" THEN mounted_app_next(d, lv, err)
     ELSE Continue(d, Parent(lv), err)

\* done of Router.handle: restore(out, req, 'baseUrl', 'next', 'params'),
\* wrapped for OPTIONS; out of a sub-router is the next of the level that invoked it
done(d, lv, err) ==
  LET c == d.ctx[lv]
      restored == [d EXCEPT !.req.baseUrl = c.saved.baseUrl, !.req.next = c.saved.next,
                            !.req.params = c.saved.params]
  IN IF d.req.method = "OPTIONS" /\ err = NoErr /\ Len(c.options) # 0
     THEN [d EXCEPT !.res = [@ EXCEPT !.sent = TRUE, !.allow = c.options, !.body = c.options]]
     ELSE IF lv = <<>> THEN [restored EXCEPT !.out = Append(@, err)]
     ELSE IF StackOf(Parent(lv))[lv[Len(lv)]].kind = "app" THEN mounted_app_next(restored, lv, err)
     ELSE Continue(restored, Parent(lv), err)

\* proto.handle up to its first call of next
handle(d, lv) ==
  LET parentUrl == IF d.req.baseUrl.def THEN d.req.baseUrl.v ELSE <<>>
      c == [idx |-> 0, sync |-> 0, removed |-> <<>>, slashAdded |-> FALSE,
            protohost |-> getProtohost(d.req.url), options |-> <<>>, paramcalled |-> {},
            parentParams |-> d.req.params, parentUrl |-> parentUrl,
            saved |-> [baseUrl |-> d.req.baseUrl, next |-> d.req.next, params |-> d.req.params]]
      d1 == [SetCtx(d, lv, c) EXCEPT !.req.next = lv, !.req.baseUrl = Defined(parentUrl),
                                     !.req.originalUrl = IF @ = <<>> THEN d.req.url ELSE @]
  IN Continue(d1, lv, NoErr)

\* Route.prototype.dispatch up to its first call of next
dispatch(d, rl) ==
  LET rstack == StackOf(rl)
      route == StackOf(Parent(rl))[rl[Len(rl)]]
      lower == IF d.req.method = "GET" THEN "get" ELSE IF d.req.method = "POST" THEN "post"
               ELSE IF d.req.method = "HEAD" THEN "head" ELSE "options"
      method == IF lower = "head" /\ "head" \notin route.methods THEN "get" ELSE lower
      d1 == [SetCtx(d, rl, [idx |-> 0, sync |-> 0, method |-> method]) EXCEPT !.req.route = rl]
  IN IF Len(rstack) = 0 THEN Continue(d, Parent(rl), NoErr)
     ELSE Continue(d1, rl, NoErr)

\* DispatchLayer that calls done() without the error past the last layer
DispatchLayer_DoneBare(d, rl, err, i) ==
  IF i > Len(StackOf(rl)) THEN Continue(d, Parent(rl), NoErr)
  ELSE IF StackOf(rl)[i].method # "" /\ StackOf(rl)[i].method # d.ctx[rl].method
  THEN Continue(PushFrame(d, rl, i), rl, err)
  ELSE IF err # NoErr THEN handle_error(PushFrame(d, rl, i), rl, i, err)
  ELSE handle_request(PushFrame(d, rl, i), rl, i)

\* DispatchLayer that does not compare layer.method with the request method
DispatchLayer_AnyMethod(d, rl, err, i) ==
  IF i > Len(StackOf(rl)) THEN Continue(d, Parent(rl), err)
  ELSE IF err # NoErr THEN handle_error(PushFrame(d, rl, i), rl, i, err)
  ELSE handle_request(PushFrame(d, rl, i), rl, i)

\* next of Route.dispatch, from `var layer = stack[idx++]` on; d has idx advanced to i
DispatchLayer(d, rl, err, i) ==
  IF i > Len(StackOf(rl)) THEN Continue(d, Parent(rl), err)
  ELSE IF StackOf(rl)[i].method # "" /\ StackOf(rl)[i].method # d.ctx[rl].method
  THEN Continue(PushFrame(d, rl, i), rl, err)
  ELSE IF err # NoErr THEN handle_error(PushFrame(d, rl, i), rl, i, err)
  ELSE handle_request(PushFrame(d, rl, i), rl, i)

\* dispatch_next that treats 'router' like 'route'
dispatch_next_RouterAsRoute(d, rl, err) ==
  IF err = ErrRoute \/ err = ErrRouter THEN Continue(d, Parent(rl), NoErr)
  ELSE IF d.ctx[rl].sync + 1 > SyncLimit
  THEN setImmediate([d EXCEPT !.ctx[rl].sync = @ + 1], "next", rl, err)
  ELSE DispatchLayer([d EXCEPT !.ctx[rl].sync = @ + 1, !.ctx[rl].idx = @ + 1], rl, err,
                     d.ctx[rl].idx + 1)

\* next(err) of Route.dispatch
dispatch_next(d, rl, err) ==
  IF err = ErrRoute THEN Continue(d, Parent(rl), NoErr)
  ELSE IF err = ErrRouter THEN Continue(d, Parent(rl), err)
  ELSE IF d.ctx[rl].sync + 1 > SyncLimit
  THEN setImmediate([d EXCEPT !.ctx[rl].sync = @ + 1], "next", rl, err)
  ELSE DispatchLayer([d EXCEPT !.ctx[rl].sync = @ + 1, !.ctx[rl].idx = @ + 1], rl, err,
                     d.ctx[rl].idx + 1)

\* An exception unwinds the call stack to the innermost open try, which is the
\* try of Layer.handle_request or Layer.handle_error around a layer's
\* function; its catch calls next(err) of the level that invoked the layer.
\* Without an open try the exception leaves the dispatch.
Catch(d, e) ==
  LET k == CatchFrame(d.cs)
  IN IF k = 0
     THEN [d EXCEPT !.esc = Append(@, e), !.cs = <<>>, !.cur = NoCur]
     ELSE Continue([d EXCEPT !.cs = [Take(d.cs, k) EXCEPT ![k].try = FALSE], !.cur = NoCur],
                   d.cs[k].lv, e)

\* one call
Step(d) ==
  LET o == d.op
      d0 == [d EXCEPT !.op = Halt]
  IN CASE o.name = "continue" -> IF IsRouter(o.lv) THEN next(d0, o.lv, o.arg)
                                 ELSE dispatch_next(d0, o.lv, o.arg)
       [] o.name = "done" -> done(d0, o.lv, o.arg)
       [] o.name = "handle" -> handle(d0, o.lv)
       [] o.name = "dispatch" -> dispatch(d0, o.lv)
       [] o.name = "throw" -> Catch(d0, o.arg)

\* run until control reaches an application handler or the event loop
RECURSIVE Run(_)
Run(d) == IF d.op.name = "halt" THEN d ELSE Run(Step(d))

\* Unwind in which the returning calls leave the counter as it is
Unwind_CounterKept(d) == [d EXCEPT !.cs = <<>>]

\* Control is back at the event loop: every frame returns, and each return
\* runs the `sync = 0` that follows the call in next
Unwind(d) ==
  [d EXCEPT !.cs = <<>>,
            !.ctx = [l \in DOMAIN d.ctx |->
                       IF \E k \in 1..Len(d.cs) : d.cs[k].lv = l
                       THEN [d.ctx[l] EXCEPT !.sync = 0] ELSE d.ctx[l]]]

Returned(d) == IF d.cur.on THEN d ELSE Unwind(d)
Settle(d) == Returned(Run(d))

----------------------------------------------------------------------------
\* Registration

UsePaths == {P_root, P_a, P_id}
Arities == {3, 4}
RoutePaths == {P_a, P_id}
\* the handlers the model registers on a Route: <<method, fn.length>>
VerbShapes == {<<"get", 3>>, <<"get", 4>>, <<"", 3>>, <<"", 4>>, <<"head", 3>>, <<"post", 3>>}
Routers == {"main", "sub"}
Mounted == \E i \in 1..Len(stack.main) : IsMount(stack.main[i])

CanRegister(r) == phase = "setup" /\ nreg < MaxReg /\ (r = "sub" => Mounted)

\* Push that puts the new layer in front of the stack
Push_AtFront(r, layer) ==
  /\ stack' = [stack EXCEPT ![r] = <<layer>> \o @]
  /\ lm' = [k \in (DOMAIN lm) \cup {<<r, Len(stack[r]) + 1>>} |->
              IF k \in DOMAIN lm THEN lm[k] ELSE NoCache]
  /\ nreg' = nreg + 1
  /\ UNCHANGED <<params, phase, req, ctx, cs, cur, pend, res, out, esc, inv, pcalls, last, proto>>

\* this.stack.push(layer)
Push(r, layer) ==
  /\ stack' = [stack EXCEPT ![r] = Append(@, layer)]
  /\ lm' = [k \in (DOMAIN lm) \cup {<<r, Len(stack[r]) + 1>>} |->
              IF k \in DOMAIN lm THEN lm[k] ELSE NoCache]
  /\ nreg' = nreg + 1
  /\ UNCHANGED <<params, phase, req, ctx, cs, cur, pend, res, out, esc, inv, pcalls, last, proto>>

\* router.use(path, fn) with a function
Use(r, path, arity) ==
  /\ CanRegister(r)
  /\ Push(r, Layer(path, FALSE, "fn", arity, ""))
  /\ UNCHANGED subapp

\* router.use(path, sub) with the sub-router
UseRouter(path) ==
  /\ CanRegister("main")
  /\ Push("main", Layer(path, FALSE, "router", 3, ""))
  /\ UNCHANGED subapp

\* app.use(path, sub) with the application object that owns the sub-router
UseApp(path) ==
  /\ CanRegister("main")
  /\ subapp' = [mountpath |-> path, parent |-> "outer"]
  /\ Push("main", Layer(path, FALSE, "app", 3, ""))

\* router.route(path)
Route(r, path) ==
  /\ CanRegister(r)
  /\ Push(r, Layer(path, TRUE, "route", 3, ""))
  /\ UNCHANGED subapp

\* route.METHOD(fn) / route.all(fn) on the route created last
Verb(r, method, arity) ==
  /\ CanRegister(r)
  /\ Len(stack[r]) > 0
  /\ stack[r][Len(stack[r])].kind = "route"
  /\ stack' = [stack EXCEPT ![r][Len(stack[r])] =
                 [@ EXCEPT !.rstack = Append(@, Layer(P_root, TRUE, "fn", arity, method)),
                           !.methods = @ \cup {IF method = "" THEN "_all" ELSE method}]]
  /\ nreg' = nreg + 1
  /\ UNCHANGED <<params, phase, req, ctx, lm, cs, cur, pend, res, out, esc, inv, pcalls, last, proto,
                 subapp>>

\* router.param(name, fn)
Param(name) ==
  /\ CanRegister("main")
  /\ params' = [params EXCEPT !.main[name] = @ + 1]
  /\ nreg' = nreg + 1
  /\ UNCHANGED <<stack, phase, req, ctx, lm, cs, cur, pend, res, out, esc, inv, pcalls, last, proto,
                 subapp>>

----------------------------------------------------------------------------
\* Dispatch

Requests == {[method |-> "GET", url |-> U_a], [method |-> "GET", url |-> U_a_slash],
             [method |-> "GET", url |-> U_a_a_q], [method |-> "GET", url |-> U_abs],
             [method |-> "HEAD", url |-> U_a], [method |-> "OPTIONS", url |-> U_a],
             [method |-> "POST", url |-> U_a], [method |-> "GET", url |-> U_bad],
             [method |-> "GET", url |-> U_none]}

D == [req |-> req, ctx |-> ctx, lm |-> lm, cs |-> cs, cur |-> cur, pend |-> pend,
      res |-> res, out |-> out, esc |-> esc, inv |-> inv, pcalls |-> pcalls, proto |-> proto,
      op |-> Halt]

Commit(d) ==
  /\ req' = d.req /\ ctx' = d.ctx /\ lm' = d.lm /\ cs' = d.cs /\ cur' = d.cur
  /\ pend' = d.pend /\ res' = d.res /\ out' = d.out /\ esc' = d.esc /\ inv' = d.inv
  /\ pcalls' = d.pcalls /\ proto' = d.proto

NoLast == [what |-> "none", lv |-> <<>>, i |-> 0, arg |-> NoErr, n |-> 0]

\* the application hands a request to router.handle(req, res, out)
Start(r) ==
  /\ phase = "setup"
  /\ phase' = "run"
  /\ Commit(Settle(Call([D EXCEPT !.req.method = r.method, !.req.url = r.url], "handle", <<>>, NoErr)))
  /\ UNCHANGED <<stack, params, last, nreg, subapp>>

Running == phase = "run" /\ cur.on

\* the running handler calls next(arg) before it returns
HNext(arg) ==
  /\ Running
  /\ Commit(Settle(Continue([D EXCEPT !.cur = NoCur], cur.lv, arg)))
  /\ last' = [what |-> "next", lv |-> cur.lv, i |-> cur.i, arg |-> arg, n |-> Len(inv)]
  /\ UNCHANGED <<stack, params, phase, nreg, subapp>>

\* the running handler is the init middleware of the mounted application: it
\* gives req and res the prototypes of that application and calls next()
HInit ==
  /\ Running
  /\ Len(cur.lv) >= 1 /\ stack.main[cur.lv[1]].kind = "app"
  /\ Commit(Settle(Continue([D EXCEPT !.cur = NoCur, !.proto.req = "sub", !.proto.res = "sub"],
                             cur.lv, NoErr)))
  /\ last' = [what |-> "next", lv |-> cur.lv, i |-> cur.i, arg |-> NoErr, n |-> Len(inv)]
  /\ UNCHANGED <<stack, params, phase, nreg, subapp>>

\* the running handler throws e
HThrow(e) ==
  /\ Running
  /\ Commit(Settle(Throw(D, e)))
  /\ last' = [what |-> "throw", lv |-> cur.lv, i |-> cur.i, arg |-> e, n |-> Len(inv)]
  /\ UNCHANGED <<stack, params, phase, nreg, subapp>>

\* the running handler sends the response and returns
HRespond ==
  /\ Running
  /\ Commit(Unwind([D EXCEPT !.cur = NoCur, !.res.sent = TRUE]))
  /\ last' = [what |-> "respond", lv |-> cur.lv, i |-> cur.i, arg |-> NoErr, n |-> Len(inv)]
  /\ UNCHANGED <<stack, params, phase, nreg, subapp>>

\* the running handler returns and keeps next for later
HDefer ==
  /\ Running
  /\ Commit(Unwind([D EXCEPT !.cur = NoCur,
                             !.pend = @ \cup {[fn |-> "hnext", lv |-> cur.lv, i |-> cur.i, arg |-> NoErr]}]))
  /\ last' = [what |-> "defer", lv |-> cur.lv, i |-> cur.i, arg |-> NoErr, n |-> Len(inv)]
  /\ UNCHANGED <<stack, params, phase, nreg, subapp>>

\* a handler that returned calls the next it kept
AsyncNext(arg) ==
  /\ phase = "run" /\ ~cur.on
  /\ \E t \in pend :
       /\ t.fn = "hnext"
       /\ Commit(Settle(Continue([D EXCEPT !.pend = @ \ {t}], t.lv, arg)))
       /\ last' = [what |-> "next", lv |-> t.lv, i |-> t.i, arg |-> arg, n |-> Len(inv)]
  /\ UNCHANGED <<stack, params, phase, nreg, subapp>>

\* the event loop runs a setImmediate callback
Tick ==
  /\ phase = "run" /\ ~cur.on
  /\ \E t \in pend :
       /\ t.fn \in {"done", "next"}
       /\ Commit(Settle(Call([D EXCEPT !.pend = @ \ {t}], IF t.fn = "done" THEN "done" ELSE "continue", t.lv, t.arg)))
  /\ UNCHANGED <<stack, params, phase, last, nreg, subapp>>

NextArgs == {NoErr, "e1", ErrRoute, ErrRouter}

\* The applications a run starts from: what was registered before the
\* registration calls the model explores
Mw(path, arity) == Layer(path, FALSE, "fn", arity, "")
GetRoute(path) ==
  [Layer(path, TRUE, "route", 3, "") EXCEPT !.rstack = <<Layer(P_root, TRUE, "fn", 3, "get")>>,
                                            !.methods = {"get"}]
PostRoute(path) ==
  [Layer(path, TRUE, "route", 3, "") EXCEPT !.rstack = <<Layer(P_root, TRUE, "fn", 3, "post")>>,
                                            !.methods = {"post"}]
NoCallbacks == [n \in {"id"} |-> 0]
InitialApps ==
  { \* a new Router()
    [main |-> <<>>, sub |-> <<>>, params |-> NoCallbacks],
    \* router.use(mw1); router.use(mw2)
    [main |-> <<Mw(P_root, 3), Mw(P_root, 3)>>, sub |-> <<>>, params |-> NoCallbacks],
    \* router.get('/a', h)
    [main |-> <<GetRoute(P_a)>>, sub |-> <<>>, params |-> NoCallbacks],
    \* router.get('/a', h); router.post('/a', h)
    [main |-> <<GetRoute(P_a), PostRoute(P_a)>>, sub |-> <<>>, params |-> NoCallbacks],
    \* sub.use(mw); sub.use('/a', mw); router.use('/a', sub)
    [main |-> <<Layer(P_a, FALSE, "router", 3, "")>>, sub |-> <<Mw(P_root, 3), Mw(P_a, 3)>>,
     params |-> NoCallbacks],
    \* router.use(function (req, res) {}); router.use(function (a, b, c, d, e) {});
    \* router.use('/a', mw)
    [main |-> <<Mw(P_root, 2), Mw(P_root, 5), Mw(P_a, 3)>>, sub |-> <<>>, params |-> NoCallbacks],
    \* sub.use(mw); app.use('/a', sub) with the application sub
    [main |-> <<Layer(P_a, FALSE, "app", 3, "")>>, sub |-> <<Mw(P_root, 3)>>, params |-> NoCallbacks],
    \* router.param('id', fn); router.use(mw); router.use('/:id', mw)
    [main |-> <<Mw(P_root, 3), Mw(P_id, 3)>>, sub |-> <<>>, params |-> [n \in {"id"} |-> 1]] }

Init ==
  /\ \E app \in InitialApps :
       /\ stack = [main |-> app.main, sub |-> app.sub]
       /\ params = [main |-> app.params, sub |-> NoCallbacks]
       /\ lm = [k \in ({"main"} \X (1..Len(app.main))) \cup ({"sub"} \X (1..Len(app.sub))) |-> NoCache]
       /\ subapp = IF \E i \in 1..Len(app.main) : app.main[i].kind = "app"
                   THEN [mountpath |-> P_a, parent |-> "outer"]
                   ELSE [mountpath |-> P_root, parent |-> "none"]
  /\ proto = [req |-> "outer", res |-> "outer", orig |-> "outer"]
  /\ phase = "setup"
  /\ req = [method |-> "GET", url |-> <<>>, originalUrl |-> <<>>, baseUrl |-> Undefined,
            params |-> Undefined, next |-> NoLevel, route |-> NoLevel]
  /\ ctx = [l \in {} |-> 0]
  /\ cs = <<>>
  /\ cur = NoCur
  /\ pend = {}
  /\ res = [sent |-> FALSE, status |-> 200, allow |-> <<>>, body |-> <<>>]
  /\ out = <<>>
  /\ esc = <<>>
  /\ inv = <<>>
  /\ pcalls = [accepted |-> 0, invoked |-> 0]
  /\ last = NoLast
  /\ nreg = 0

Next ==
  \/ \E r \in Routers, path \in UsePaths, arity \in Arities : Use(r, path, arity)
  \/ \E path \in {P_a} : UseRouter(path)
  \/ \E path \in {P_a} : UseApp(path)
  \/ \E r \in Routers, path \in RoutePaths : Route(r, path)
  \/ \E r \in Routers, shape \in VerbShapes : Verb(r, shape[1], shape[2])
  \/ \E name \in {"id"} : Param(name)
  \/ \E r \in Requests : Start(r)
  \/ \E arg \in NextArgs : HNext(arg)
  \/ HInit
  \/ \E e \in {"e2"} : HThrow(e)
  \/ HRespond
  \/ HDefer
  \/ \E arg \in NextArgs : AsyncNext(arg)
  \/ Tick

Spec == Init /\ [][Next]_vars

\* a handler that was invoked runs until it calls next, throws or returns
Returns ==
  \/ \E arg \in NextArgs : HNext(arg)
  \/ HInit
  \/ \E e \in {"e2"} : HThrow(e)
  \/ HRespond
  \/ HDefer

\* a handler that kept next calls it
Resumes == \E arg \in NextArgs : AsyncNext(arg)

\* one request served by an application whose registration is complete
Serve ==
  \/ \E r \in Requests : Start(r)
  \/ Returns
  \/ Resumes
  \/ Tick

\* the paths of a second request that is in flight on the same router
OtherPaths == {<<"/", "a">>, <<"/", "b">>}

\* while this request is suspended, next() of the second request calls
\* matchLayer on layer k of router r, which stores its result on the layer
OtherRequest(r, k, path) ==
  /\ phase = "run" /\ ~cur.on /\ pend # {}
  /\ k <= Len(stack[r])
  /\ matchLayer(stack[r][k], path).set
  /\ lm' = [lm EXCEPT ![<<r, k>>] = matchLayer(stack[r][k], path).c]
  /\ UNCHANGED <<stack, params, phase, req, ctx, cs, cur, pend, res, out, esc, inv, pcalls,
                 last, nreg, proto, subapp>>

\* one request served while a second one matches the layers they share
Shared ==
  \/ Serve
  \/ \E r \in Routers, k \in 1..(MaxReg + 3), path \in OtherPaths : OtherRequest(r, k, path)

SharedSpec == Init /\ [][Shared]_vars

\* a handler returned with next kept and has not called it yet
Resumable == phase = "run" /\ ~cur.on /\ \E t \in pend : t.fn = "hnext"

\* the dispatch with an event loop that runs every callback handed to
\* setImmediate, where no handler runs forever and no kept next stays uncalled
\* forever
FairSpec ==
  Init /\ [][Serve]_vars /\ WF_vars(Tick) /\ []<>~Running /\ []<>~Resumable

\* Applications whose stacks are longer than the re-entrancy limit: layers
\* that Layer.handle_request passes over call next() synchronously, so one
\* call of next can nest SyncLimit further calls
Repeat(n, layer) == [k \in 1..n |-> layer]
LongRoute(path, n, m) ==
  [Layer(path, TRUE, "route", 3, "") EXCEPT
     !.rstack = Repeat(n, Layer(P_root, TRUE, "fn", 4, "get"))
                  \o Repeat(m, Layer(P_root, TRUE, "fn", 3, "get")),
     !.methods = {"get"}]
LongApps ==
  { \* SyncLimit times router.use(errorHandler), then router.use(mw) twice
    [main |-> Repeat(SyncLimit, Mw(P_root, 4)) \o Repeat(2, Mw(P_root, 3)), sub |-> <<>>],
    \* the same with the last two error handlers replaced by middleware
    [main |-> Repeat(SyncLimit - 2, Mw(P_root, 4)) \o Repeat(4, Mw(P_root, 3)), sub |-> <<>>],
    \* router.get('/a', ...) with SyncLimit error handlers and two handlers
    [main |-> <<LongRoute(P_a, SyncLimit, 2)>>, sub |-> <<>>],
    \* the same with the last two error handlers replaced by handlers
    [main |-> <<LongRoute(P_a, SyncLimit - 2, 4)>>, sub |-> <<>>],
    \* the first application mounted as a sub-router: router.use('/a', sub)
    [main |-> <<Layer(P_a, FALSE, "router", 3, ""), Mw(P_root, 3)>>,
     sub |-> Repeat(SyncLimit, Mw(P_root, 4)) \o Repeat(2, Mw(P_root, 3))],
    \* SyncLimit + 1 times router.use(mw), then router.use('/:id', mw): an error
    \* passes over the middleware that follows
    [main |-> Repeat(SyncLimit + 1, Mw(P_root, 3)) \o <<Mw(P_id, 3)>>, sub |-> <<>>] }

LongInit ==
  /\ \E app \in LongApps :
       /\ stack = [main |-> app.main, sub |-> app.sub]
       /\ lm = [k \in ({"main"} \X (1..Len(app.main))) \cup ({"sub"} \X (1..Len(app.sub))) |-> NoCache]
  /\ params = [main |-> NoCallbacks, sub |-> NoCallbacks]
  /\ subapp = [mountpath |-> P_root, parent |-> "none"]
  /\ proto = [req |-> "outer", res |-> "outer", orig |-> "outer"]
  /\ phase = "setup"
  /\ req = [method |-> "GET", url |-> <<>>, originalUrl |-> <<>>, baseUrl |-> Undefined,
            params |-> Undefined, next |-> NoLevel, route |-> NoLevel]
  /\ ctx = [l \in {} |-> 0]
  /\ cs = <<>>
  /\ cur = NoCur
  /\ pend = {}
  /\ res = [sent |-> FALSE, status |-> 200, allow |-> <<>>, body |-> <<>>]
  /\ out = <<>>
  /\ esc = <<>>
  /\ inv = <<>>
  /\ pcalls = [accepted |-> 0, invoked |-> 0]
  /\ last = NoLast
  /\ nreg = 0

\* the requests made of the long applications
LongRequests == {[method |-> "GET", url |-> U_a], [method |-> "GET", url |-> U_a_a_q],
                 [method |-> "HEAD", url |-> U_a], [method |-> "POST", url |-> U_a]}

\* one request served by one of the long applications
LongServe ==
  \/ \E r \in LongRequests : Start(r)
  \/ \E arg \in NextArgs : HNext(arg)
  \/ \E e \in {"e2"} : HThrow(e)
  \/ HRespond
  \/ HDefer
  \/ \E arg \in NextArgs : AsyncNext(arg)
  \/ Tick

LongSpec == LongInit /\ [][LongServe]_vars

\* mergeParams.  A params object is a function from keys to values; the
\* positional keys are the decimal strings "0", "1", ...
MaxPositional == 2
ParamValues == {<<"a">>, <<"b">>}
Key(n) == <<"0", "1", "2", "3", "4", "5", "6", "7", "8", "9">>[n + 1]
PositionalKeys == {Key(n) : n \in 0..(2 * MaxPositional)}

\* utils-merge: every key of b is copied onto a
mixin(a, b) == [k \in (DOMAIN a) \cup (DOMAIN b) |-> IF k \in DOMAIN b THEN b[k] ELSE a[k]]

\* while (i in obj) i++
RECURSIVE CountFrom(_, _)
CountFrom(obj, i) == IF Key(i) \in DOMAIN obj THEN CountFrom(obj, i + 1) ELSE i

\* for (i--; i >= 0; i--) { params[i + o] = params[i]; if (i < o) delete params[i] }
RECURSIVE ShiftLoop(_, _, _)
ShiftLoop(ps, i, o) ==
  IF i < 0 THEN ps
  ELSE ShiftLoop([k \in ((DOMAIN ps) \cup {Key(i + o)}) \ (IF i < o THEN {Key(i)} ELSE {}) |->
                    IF k = Key(i + o) THEN ps[Key(i)] ELSE ps[k]],
                 i - 1, o)

\* mergeParams that never renumbers
mergeParams_Plain(ps, parent) ==
  IF ~parent.def THEN [ret |-> ps, params |-> ps]
  ELSE [ret |-> mixin(parent.v, ps), params |-> ps]

\* mergeParams(params, parent): [ret, params], the object returned and the
\* object params as the call leaves it (the loop renumbers it in place)
mergeParams(ps, parent) ==
  IF ~parent.def THEN [ret |-> ps, params |-> ps]
  ELSE IF Key(0) \notin DOMAIN ps \/ Key(0) \notin DOMAIN parent.v
  THEN [ret |-> mixin(mixin(NoParams, parent.v), ps), params |-> ps]
  ELSE [ret |-> mixin(mixin(NoParams, parent.v),
                      ShiftLoop(ps, CountFrom(ps, 0) - 1, CountFrom(parent.v, 0))),
        params |-> ShiftLoop(ps, CountFrom(ps, 0) - 1, CountFrom(parent.v, 0))]

\* the params objects a match or an outer router produces: n positional
\* captures 0..n-1 and possibly the named capture id
ParamObjects ==
  UNION {[(IF named THEN {"id"} ELSE {}) \cup {Key(j) : j \in 0..(n - 1)} -> ParamValues] :
           n \in 0..MaxPositional, named \in BOOLEAN}

\* a router created with mergeParams: true has matched its layer: layer.params
\* holds the captures, parentParams what req.params held when handle was called
MergeInit ==
  /\ stack = [main |-> <<Mw(P_star, 3)>>, sub |-> <<>>]
  /\ \E ps \in ParamObjects, parent \in {Undefined} \cup {Defined(o) : o \in ParamObjects} :
       /\ lm = [k \in {<<"main", 1>>} |-> Cache(TRUE, ps, TRUE, <<>>)]
       /\ req = [method |-> "GET", url |-> <<>>, originalUrl |-> <<>>, baseUrl |-> Defined(<<>>),
                 params |-> parent, next |-> <<>>, route |-> NoLevel]
       /\ ctx = [l \in {<<>>} |->
                   [idx |-> 1, sync |-> 1, removed |-> <<>>, slashAdded |-> FALSE,
                    protohost |-> <<>>, options |-> <<>>, paramcalled |-> {},
                    parentParams |-> parent, parentUrl |-> <<>>,
                    saved |-> [baseUrl |-> Undefined, next |-> NoLevel, params |-> parent]]]
  /\ params = [main |-> NoCallbacks, sub |-> NoCallbacks]
  /\ subapp = [mountpath |-> P_root, parent |-> "none"]
  /\ proto = [req |-> "outer", res |-> "outer", orig |-> "outer"]
  /\ phase = "setup"
  /\ cs = <<>>
  /\ cur = NoCur
  /\ pend = {}
  /\ res = [sent |-> FALSE, status |-> 200, allow |-> <<>>, body |-> <<>>]
  /\ out = <<>>
  /\ esc = <<>>
  /\ inv = <<>>
  /\ pcalls = [accepted |-> 0, invoked |-> 0]
  /\ last = NoLast
  /\ nreg = 0

\* req.params = mergeParams(layer.params, parentParams)
Merge ==
  /\ phase = "setup"
  /\ phase' = "run"
  /\ req' = [req EXCEPT !.params = Defined(mergeParams(lm[<<"main", 1>>].params,
                                                       ctx[<<>>].parentParams).ret)]
  /\ lm' = [lm EXCEPT ![<<"main", 1>>].params = mergeParams(lm[<<"main", 1>>].params,
                                                            ctx[<<>>].parentParams).params]
  /\ UNCHANGED <<stack, params, ctx, cs, cur, pend, res, out, esc, inv, pcalls, last, nreg,
                 proto, subapp>>

MergeSpec == MergeInit /\ [][Merge]_vars

----------------------------------------------------------------------------
\* Layer.match on its own

\* what every specification below starts from besides its inputs: nothing
\* dispatched, nothing pending, no response
Fresh ==
  /\ proto = [req |-> "outer", res |-> "outer", orig |-> "outer"]
  /\ ctx = [l \in {} |-> 0]
  /\ cs = <<>>
  /\ cur = NoCur
  /\ pend = {}
  /\ res = [sent |-> FALSE, status |-> 200, allow |-> <<>>, body |-> <<>>]
  /\ out = <<>>
  /\ esc = <<>>
  /\ inv = <<>>
  /\ pcalls = [accepted |-> 0, invoked |-> 0]
  /\ last = NoLast
  /\ nreg = 0

\* the layers use() (end = false) and route() (end = true) create
MatchLayers == {Layer(p, e, "fn", 3, "") : p \in {P_root, P_a, P_id, P_star}, e \in BOOLEAN}

\* the paths handed to match: none, empty, plain, with an escape, malformed
MatchPaths == {NoPath, <<>>, P_root, U_a, U_a_slash, <<"/", "a", "/", "a">>,
               <<"/", "%", "4", "1">>, U_bad}

\* what an earlier match left on the layer
MatchCaches == {NoCache, Cache(TRUE, NoParams, TRUE, P_a)}

\* one layer, holding what its last match left, and a path in req.url
MatchInit ==
  /\ \E layer \in MatchLayers, path \in MatchPaths, c \in MatchCaches :
       /\ stack = [main |-> <<layer>>, sub |-> <<>>]
       /\ lm = [k \in {<<"main", 1>>} |-> c]
       /\ req = [method |-> "GET", url |-> path, originalUrl |-> path, baseUrl |-> Undefined,
                 params |-> Undefined, next |-> NoLevel, route |-> NoLevel]
  /\ params = [main |-> NoCallbacks, sub |-> NoCallbacks]
  /\ subapp = [mountpath |-> P_root, parent |-> "none"]
  /\ phase = "setup"
  /\ Fresh

\* what req.baseUrl, req.params and req.next hold when router.handle is
\* called: nothing, or what an enclosing router mounted at '/x' left there
Entries ==
  {[baseUrl |-> Undefined, params |-> Undefined, next |-> NoLevel],
   [baseUrl |-> Defined(<<"/", "x">>), params |-> Defined([k \in {"id"} |-> <<"b">>]),
    next |-> <<9>>]}

EntryInit ==
  /\ \E app \in InitialApps, e \in Entries :
       /\ stack = [main |-> app.main, sub |-> app.sub]
       /\ params = [main |-> app.params, sub |-> NoCallbacks]
       /\ lm = [k \in ({"main"} \X (1..Len(app.main))) \cup ({"sub"} \X (1..Len(app.sub))) |-> NoCache]
       /\ subapp = IF \E i \in 1..Len(app.main) : app.main[i].kind = "app"
                   THEN [mountpath |-> P_a, parent |-> "outer"]
                   ELSE [mountpath |-> P_root, parent |-> "none"]
       /\ req = [method |-> "GET", url |-> <<>>, originalUrl |-> <<>>, baseUrl |-> e.baseUrl,
                 params |-> e.params, next |-> e.next, route |-> NoLevel]
  /\ phase = "setup"
  /\ Fresh

\* one request served by a router that is handed a request another router
\* has worked on
EntrySpec == EntryInit /\ [][Serve]_vars

\* layer.match(path): this.params and this.path as the call leaves them
Match ==
  /\ phase = "setup"
  /\ phase' = "run"
  /\ lm' = IF match(stack.main[1], req.url).set
           THEN [lm EXCEPT ![<<"main", 1>>] = match(stack.main[1], req.url).c]
           ELSE lm
  /\ UNCHANGED <<stack, params, req, ctx, cs, cur, pend, res, out, esc, inv, pcalls, last, nreg,
                 proto, subapp>>

MatchSpec == MatchInit /\ [][Match]_vars

----------------------------------------------------------------------------
\* Registration calls with several arguments

\* arguments of one registration call
MaxArgs == 2

\* what a registration call is handed: functions of three and four parameters
\* and a value that is no function
Handles == {"fn3", "fn4", "42"}
ArgLists == UNION {[1..n -> Handles] : n \in 0..MaxArgs}
HandleArity(h) == IF h = "fn4" THEN 4 ELSE 3

\* the for loops of use, all and METHOD over the flattened arguments: each
\* function gets its layer pushed when the loop reaches it, the first argument
\* that is no function throws.  [stack, threw]
RECURSIVE PushEach(_, _, _, _, _)
PushEach(st, callbacks, path, end, method) ==
  IF callbacks = <<>> THEN [stack |-> st, threw |-> FALSE]
  ELSE IF Head(callbacks) = "42" THEN [stack |-> st, threw |-> TRUE]
  ELSE PushEach(Append(st, Layer(path, end, "fn", HandleArity(Head(callbacks)), method)),
                Tail(callbacks), path, end, method)

\* router.use(path, ...callbacks): TypeError for no callback at all and for an
\* argument that is no function
UseCalls(r, path, callbacks) ==
  /\ CanRegister(r)
  /\ LET u == IF Len(callbacks) = 0 THEN [stack |-> stack[r], threw |-> TRUE]
              ELSE PushEach(stack[r], callbacks, path, FALSE, "")
     IN /\ stack' = [stack EXCEPT ![r] = u.stack]
        /\ lm' = [k \in (DOMAIN lm) \cup ({r} \X (1..Len(u.stack))) |->
                    IF k \in DOMAIN lm THEN lm[k] ELSE NoCache]
        /\ esc' = IF u.threw THEN Append(esc, "TypeError") ELSE esc
  /\ nreg' = nreg + 1
  /\ UNCHANGED <<params, phase, req, ctx, cs, cur, pend, res, out, inv, pcalls, last, proto, subapp>>

\* route.all(...handles) (method "") and route.METHOD(...handles) on the route
\* created last: methods._all or methods[method] is set with each layer pushed
VerbCalls(r, method, handles) ==
  /\ CanRegister(r)
  /\ Len(stack[r]) > 0
  /\ stack[r][Len(stack[r])].kind = "route"
  /\ LET route == stack[r][Len(stack[r])]
         u == PushEach(route.rstack, handles, P_root, TRUE, method)
     IN /\ stack' = [stack EXCEPT ![r][Len(stack[r])] =
                       [@ EXCEPT !.rstack = u.stack,
                                 !.methods = IF Len(u.stack) > Len(route.rstack)
                                             THEN @ \cup {IF method = "" THEN "_all" ELSE method}
                                             ELSE @]]
        /\ esc' = IF u.threw THEN Append(esc, IF method = "" THEN "TypeError" ELSE "Error")
                  ELSE esc
  /\ nreg' = nreg + 1
  /\ UNCHANGED <<params, phase, req, ctx, lm, cs, cur, pend, res, out, inv, pcalls, last, proto,
                 subapp>>

\* an application under construction
Registering ==
  \/ \E r \in Routers, path \in {P_root, P_a}, callbacks \in ArgLists : UseCalls(r, path, callbacks)
  \/ \E r \in Routers, path \in {P_a} : Route(r, path)
  \/ \E r \in Routers, method \in {"", "get"}, handles \in ArgLists : VerbCalls(r, method, handles)

RegSpec == Init /\ [][Registering]_vars

----------------------------------------------------------------------------
\* Properties of the dispatch

\* the dispatch is over: no handler is running and nothing is scheduled
Quiescent == phase = "run" /\ ~cur.on /\ pend = {}

\* the most recent handler raised a real error: it threw, or passed it to next
Raised == last.what \in {"throw", "next"} /\ last.arg \in AppErrors

\* level lv is the activation r or one it invoked
Within(lv, r) == Len(lv) >= Len(r) /\ Take(lv, Len(r)) = r

\* C1: within one dispatch the layers of a stack are invoked in strictly
\* increasing stack (registration) order, and none of them more than once
C1_RegistrationOrder ==
  \A m, n \in 1..Len(inv) :
    (m < n /\ inv[m].lv = inv[n].lv) => inv[m].i < inv[n].i

\* two matching layers of the outer stack were both invoked
C1_BothInvoked ==
  \E m, n \in 1..Len(inv) :
    m < n /\ inv[m].lv = <<>> /\ inv[n].lv = <<>> /\ inv[m].i < inv[n].i

\* C2: out is invoked at most once, and exactly once when the dispatch is over
\* and neither a handler nor the OPTIONS synthesis sent a response
C2_OneTerminalOutcome ==
  /\ Len(out) <= 1
  /\ (Quiescent /\ ~res.sent) => Len(out) = 1

\* the stack [mw1, mw2, errHandler, mw3], every layer matching the request,
\* mw1 and mw2 invoked without an error
C3_Stack ==
  /\ Len(stack.main) = 4
  /\ \A k \in 1..4 : /\ stack.main[k].kind = "fn"
                     /\ stack.main[k].arity = (IF k = 3 THEN 4 ELSE 3)
                     /\ matchLayer(stack.main[k], getPathname(req.originalUrl)).ret = "true"
  /\ Len(inv) >= 2
  /\ inv[1] = [lv |-> <<>>, i |-> 1, err |-> NoErr]
  /\ inv[2] = [lv |-> <<>>, i |-> 2, err |-> NoErr]

\* C3: when mw2 of [mw1, mw2, errHandler, mw3] throws e, errHandler is invoked
\* with exactly e and mw3 is not invoked
C3_ErrorBypass ==
  (C3_Stack /\ last = [what |-> "throw", lv |-> <<>>, i |-> 2, arg |-> "e2", n |-> 2])
    => cur = [on |-> TRUE, lv |-> <<>>, i |-> 3, err |-> "e2"]

\* C4: a real error e raised by a handler stays the pending error: the next
\* handler invoked is a 4-parameter handler that receives exactly e, and when
\* the stack is exhausted without one, out is invoked with e
C4_ErrorPropagation ==
  /\ (Raised /\ cur.on) => (cur.err = last.arg /\ StackOf(cur.lv)[cur.i].arity = 4)
  /\ (Raised /\ Quiescent /\ ~res.sent) => out = <<last.arg>>

\* C5: an exception thrown by a running handler is caught by the try around
\* its own invocation and given to the continuation of its level as the error;
\* no exception thrown by a handler leaves the dispatch
C5_ExceptionContainment ==
  /\ \A k \in 1..Len(esc) : esc[k] \notin AppErrors
  /\ Running => /\ Catch(D, "e2").op = [name |-> "continue", lv |-> cur.lv, arg |-> "e2"]
                /\ Catch(D, "e2").esc = esc

\* a handler threw e2 and out received it
C5_ThrownReachesOut == last.what = "throw" /\ out = <<"e2">>

\* a Route of the outer stack followed by middleware only
C6_RouteThenMiddleware(ri) ==
  /\ ri \in 1..Len(stack.main)
  /\ stack.main[ri].kind = "route"
  /\ \A k \in (ri + 1)..Len(stack.main) : stack.main[k].kind = "fn"

\* the middleware after layer ri that matches the request and takes no error
C6_Eligible(ri) ==
  {k \in (ri + 1)..Len(stack.main) :
     /\ stack.main[k].arity = 3
     /\ matchLayer(stack.main[k], getPathname(req.originalUrl)).ret = "true"}

\* C6: after a handler of a Route calls next('route') no other handler of that
\* Route is invoked, and the first later matching middleware of the owning
\* router is invoked, with no error
C6_RouteSentinel ==
  (last.what = "next" /\ last.arg = ErrRoute /\ Len(last.lv) = 1
     /\ C6_RouteThenMiddleware(last.lv[1]) /\ C6_Eligible(last.lv[1]) # {})
    => /\ cur.on /\ cur.lv = <<>> /\ cur.err = NoErr
       /\ cur.i \in C6_Eligible(last.lv[1])
       /\ \A k \in C6_Eligible(last.lv[1]) : cur.i <= k

\* the Router a level belongs to: the level itself, or the owner of the Route
C7_RouterOfLevel(lv) == IF IsRouter(lv) THEN lv ELSE Parent(lv)

\* the automatic OPTIONS response was sent in place of out
C7_OptionsAnswered ==
  /\ req.method = "OPTIONS" /\ res.sent /\ out = <<>>
  /\ Len(ctx[<<>>].options) # 0 /\ res.allow = ctx[<<>>].options

\* after next('router'): no further layer of that Router is invoked, its caller
\* is resumed with no error, and the outer Router ends as `ended` says
C7_AfterRouterSentinel(ended) ==
  (last.what = "next" /\ last.arg = ErrRouter)
    => /\ \A m \in (last.n + 1)..Len(inv) : ~Within(inv[m].lv, C7_RouterOfLevel(last.lv))
       /\ Len(inv) > last.n => inv[last.n + 1].err = NoErr
       /\ C7_RouterOfLevel(last.lv) = <<>>
            => /\ ~cur.on
               /\ \/ pend = {[fn |-> "done", lv |-> <<>>, i |-> 0, arg |-> NoErr]} /\ out = <<>>
                  \/ pend = {} /\ ended

\* C7 (as stated): after next('router') no further layer of that Router is
\* invoked and, for every request method, out is invoked with no error
C7_RouterSentinelAnyMethod == C7_AfterRouterSentinel(out = <<NoErr>>)

\* C7 (amended): after next('router') no further layer of that Router is
\* invoked, and out is invoked with no error unless the request is OPTIONS and
\* the Router has collected methods of non-handling Routes, in which case the
\* OPTIONS response is sent and out is not invoked
C7_RouterSentinel == C7_AfterRouterSentinel(out = <<NoErr>> \/ C7_OptionsAnswered)

\* next('router') from the outer stack with a later layer left, out invoked with no error
C7_SkippedToOut ==
  /\ last.what = "next" /\ last.arg = ErrRouter
  /\ last.lv = <<>> /\ last.i < Len(stack.main)
  /\ out = <<NoErr>>

\* C8: out is never invoked with 'route' or 'router' as its error argument
C8_NoSentinelAtOut == \A k \in 1..Len(out) : out[k] \notin {ErrRoute, ErrRouter}

\* an error handler invoked with a real error passed 'router', and out was invoked
C8_SentinelWithErrorPending ==
  /\ last.what = "next" /\ last.arg = ErrRouter
  /\ Len(inv) > 0 /\ inv[Len(inv)].err \in AppErrors
  /\ Len(out) = 1

\* C9: once two layers capturing `id` were accepted in a dispatch, every
\* callback registered with param('id', fn) has been invoked exactly once
C9_ParamIdempotence ==
  (pcalls.accepted >= 2 /\ params.main["id"] > 0) => pcalls.invoked = params.main["id"]

\* the sub-router is mounted with use('/a', sub) at the layer that invoked lv
C10_MountedAtA(lv) ==
  /\ Len(lv) >= 1
  /\ stack.main[lv[1]].kind = "router"
  /\ stack.main[lv[1]].path = P_a

\* the request URL as seen below the mount point '/a'
C10_SubUrl(u) ==
  IF u = U_a_a_q THEN <<"/", "a", "?", "q">>
  ELSE IF u = U_abs THEN <<"h", ":", "/", "/", "x", "/", "a">>
  ELSE <<"/">>

\* C10: a handler inside the sub-router mounted at '/a' sees the URL without
\* the prefix and baseUrl '/a'; a handler of the outer router, and out, see
\* the URL of the request and the outer base again
C10_PrefixRoundTrip ==
  /\ (cur.on /\ C10_MountedAtA(cur.lv) /\ (Len(cur.lv) = 2 \/ StackOf(cur.lv)[cur.i].path = P_root))
       => (req.url = C10_SubUrl(req.originalUrl) /\ req.baseUrl = Defined(P_a))
  /\ (cur.on /\ (cur.lv = <<>> => stack.main[cur.i].path = P_root)
             /\ (Len(cur.lv) = 1 => ~IsRouter(cur.lv)) /\ Len(cur.lv) <= 1)
       => (req.url = req.originalUrl /\ req.baseUrl = Defined(<<>>))
  /\ Len(out) > 0 => (req.url = req.originalUrl /\ req.baseUrl = Undefined)

\* only GET /a and POST /a are registered, and the request is OPTIONS /a
C11_GetAndPost ==
  /\ phase = "run"
  /\ stack.main = <<GetRoute(P_a), PostRoute(P_a)>>
  /\ req.method = "OPTIONS" /\ req.originalUrl = U_a

\* C11: OPTIONS /a on a router with only GET /a and POST /a is not handed to
\* out: the response is 200 with Allow and body GET,HEAD,POST; an automatic
\* OPTIONS response never lists a method twice and lists HEAD wherever GET is
C11_OptionsSynthesis ==
  /\ C11_GetAndPost
       => /\ out = <<>>
          /\ res = [sent |-> TRUE, status |-> 200, allow |-> <<"GET", "HEAD", "POST">>,
                    body |-> <<"GET", "HEAD", "POST">>]
  /\ \A m, n \in 1..Len(res.allow) : res.allow[m] = res.allow[n] => m = n
  /\ (\E m \in 1..Len(res.allow) : res.allow[m] = "GET")
       => \E n \in 1..Len(res.allow) : res.allow[n] = "HEAD"
  /\ res.body = res.allow

\* the OPTIONS response for GET /a and POST /a was sent
C11_Answered == C11_GetAndPost /\ res.sent /\ Len(res.allow) = 3

\* the Route whose dispatch is the level rl
C12_RouteOf(rl) == StackOf(Parent(rl))[rl[Len(rl)]]

\* the method Route.dispatch compares layer.method with for a HEAD request
C12_Method(rl) == IF "head" \in C12_RouteOf(rl).methods THEN "head" ELSE "get"

\* the layers of the Route a HEAD request without an error is for
C12_ForHead(rl) ==
  {k \in 1..Len(StackOf(rl)) : /\ StackOf(rl)[k].method \in {"", C12_Method(rl)}
                               /\ StackOf(rl)[k].arity <= 3}

\* the layers of level rl invoked so far
C12_Invoked(rl) == {inv[m].i : m \in {n \in 1..Len(inv) : inv[n].lv = rl}}

\* C12: for a HEAD request, a Route with GET handlers that the scan reaches
\* without an error is dispatched; while no error occurred in it, Route.dispatch
\* has invoked exactly its untagged layers and those tagged GET (or HEAD, if
\* the Route has a HEAD handler), in order, none skipped
C12_HeadFallback ==
  (phase = "run" /\ req.method = "HEAD")
    => /\ (/\ Len(stack.main) > 0
           /\ stack.main[1].kind = "route"
           /\ "get" \in stack.main[1].methods
           /\ matchLayer(stack.main[1], getPathname(req.originalUrl)).ret = "true")
            => (Len(inv) > 0 /\ inv[1] = [lv |-> <<>>, i |-> 1, err |-> NoErr])
       /\ \A rl \in DOMAIN ctx :
            (~IsRouter(rl) /\ \A m \in 1..Len(inv) : inv[m].lv = rl => inv[m].err = NoErr)
              => \A i \in C12_Invoked(rl) :
                   /\ i \in C12_ForHead(rl)
                   /\ \A k \in C12_ForHead(rl) : k < i => k \in C12_Invoked(rl)

\* the layers of the outer stack whose pattern matches the request path with a
\* captured parameter that is not valid percent-encoding
C13_Malformed ==
  {k \in 1..Len(stack.main) :
     /\ RegexpExec(stack.main[k].path, stack.main[k].end, getPathname(req.originalUrl)).ok
     /\ RegexpExec(stack.main[k].path, stack.main[k].end, getPathname(req.originalUrl)).caps # <<>>
     /\ ~decodeOk(RegexpExec(stack.main[k].path, stack.main[k].end,
                             getPathname(req.originalUrl)).caps[1])}

\* the raw value layer k captured
C13_Raw(k) ==
  RegexpExec(stack.main[k].path, stack.main[k].end, getPathname(req.originalUrl)).caps[1]

\* the call of next that scans layer k with no error pending: the first of the
\* dispatch, or next() of a handler of an earlier layer of the outer stack
C13_ScannedClean(k) ==
  /\ last.what \in {"none", "next"} /\ last.arg \in {NoErr, ErrRoute}
  /\ last.lv = <<>> /\ last.i < k

\* C13: a captured parameter that is not valid percent-encoding makes the match
\* yield the URIError with status = statusCode = 400 and the raw value in its
\* message; the layer is not invoked, the error becomes the pending error given
\* to the next error handler or to out, and no exception leaves the dispatch
C13_MalformedEncoding ==
  phase = "run" =>
    \A k \in C13_Malformed :
      /\ decode_param(C13_Raw(k)).err =
           [name |-> URIErr, status |-> 400, statusCode |-> 400,
            message |-> <<"Failed to decode param '">> \o C13_Raw(k) \o <<"'">>]
      /\ matchLayer(stack.main[k], getPathname(req.originalUrl)).ret = URIErr
      /\ \A m \in 1..Len(inv) : ~(inv[m].lv = <<>> /\ inv[m].i = k)
      /\ (C13_ScannedClean(k) /\ Len(inv) > last.n
            /\ inv[last.n + 1].lv = <<>> /\ inv[last.n + 1].i > k)
           => inv[last.n + 1].err = URIErr
      /\ (C13_ScannedClean(k) /\ Len(inv) = last.n /\ Quiescent) => out = <<URIErr>>
      /\ esc = <<>>

\* the decode error of a layer reached an error handler registered after it
C13_ErrorHandlerRuns ==
  /\ cur.on /\ cur.lv = <<>> /\ cur.err = URIErr
  /\ \E k \in C13_Malformed : k < cur.i

\* the number of parameters the function of the m-th invocation declares
C14_Arity(m) == StackOf(inv[m].lv)[inv[m].i].arity

\* C14 as stated: a function is invoked as a request handler only if it declares
\* exactly 3 parameters, and as an error handler only if it declares exactly 4
C14_ExactArity ==
  \A m \in 1..Len(inv) :
    /\ inv[m].err = NoErr => C14_Arity(m) = 3
    /\ inv[m].err # NoErr => C14_Arity(m) = 4

\* C14: a function is invoked as a request handler only if it declares at most 3
\* parameters (handle_request calls next() for more than 3), and as an error
\* handler only if it declares exactly 4 (handle_error calls next(err) otherwise)
C14_ArityClassification ==
  \A m \in 1..Len(inv) :
    /\ inv[m].err = NoErr => C14_Arity(m) <= 3
    /\ inv[m].err # NoErr => C14_Arity(m) = 4

\* the handler of 2 parameters ran and called next(), the one of 5 was passed over
C14_TwoRanFiveSkipped ==
  /\ Len(stack.main) >= 2 /\ stack.main[1].arity = 2 /\ stack.main[2].arity = 5
  /\ inv # <<>> /\ inv[1] = [lv |-> <<>>, i |-> 1, err |-> NoErr]
  /\ \A m \in 1..Len(inv) : ~(inv[m].lv = <<>> /\ inv[m].i = 2)
  /\ Len(out) = 1

\* the dispatch reached a terminal outcome: out was invoked or the automatic
\* OPTIONS response was sent
C15_Terminal == out # <<>> \/ res.allow # <<>>

\* a handler ended the exchange itself: it responded and never called next
C15_Responded == res.sent /\ res.allow = <<>>

\* a handler was invoked and has not called its continuation
C15_Holding == cur.on \/ \E t \in pend : t.fn = "hnext"

C16_InFlight ==
  (IF cur.on THEN {[lv |-> cur.lv, i |-> cur.i]} ELSE {})
    \cup {[lv |-> t.lv, i |-> t.i] : t \in {u \in pend : u.fn = "hnext"}}

\* the layer of a router whose match set req.params for handler h: its own
\* layer, or the layer of the Route it belongs to
C16_Layer(h) ==
  IF IsRouter(h.lv) THEN h ELSE [lv |-> Parent(h.lv), i |-> h.lv[Len(h.lv)]]

\* the path this request presents to the router of level lv
C16_OwnPath(lv) ==
  IF lv = <<>> THEN getPathname(req.originalUrl)
  ELSE LET rest == Drop(getPathname(req.originalUrl),
                        Len(matchLayer(stack.main[lv[1]], getPathname(req.originalUrl)).c.path))
       IN IF rest = <<>> \/ rest[1] # "/" THEN <<"/">> \o rest ELSE rest

\* what the match of h's layer on this request's own path produces
C16_Own(h) ==
  matchLayer(StackOf(C16_Layer(h).lv)[C16_Layer(h).i], C16_OwnPath(C16_Layer(h).lv)).c

\* the params that the layers of the application produce for this request
C16_OwnParams ==
  {matchLayer(stack.main[k], C16_OwnPath(<<>>)).c.params : k \in 1..Len(stack.main)}
    \cup UNION {{matchLayer(stack.sub[k], C16_OwnPath(<<i>>)).c.params : k \in 1..Len(stack.sub)} :
                 i \in {j \in 1..Len(stack.main) : stack.main[j].kind = "router"}}

\* what the layer of h holds now
C16_Cached(h) == lm[LKey(C16_Layer(h).lv, C16_Layer(h).i)]

C17_Prefix(s, t) == Len(s) <= Len(t) /\ \A k \in 1..Len(s) : t[k] = s[k]

\* layer b is layer a, with handlers appended to its route.stack if it is a Route
C17_SameLayer(a, b) ==
  /\ b.path = a.path /\ b.end = a.end /\ b.kind = a.kind /\ b.arity = a.arity
  /\ b.method = a.method
  /\ C17_Prefix(a.rstack, b.rstack)

\* what one step does to the registered configuration
C17_Step ==
  /\ phase' = "run" => (stack' = stack /\ params' = params)
  /\ \A r \in Routers :
       /\ Len(stack[r]) <= Len(stack'[r])
       /\ \A k \in 1..Len(stack[r]) : C17_SameLayer(stack[r][k], stack'[r][k])
       /\ \A n \in DOMAIN params[r] : params[r][n] <= params'[r][n]

\* C17: no step of a dispatch changes a router.stack, a route.stack or the
\* param registry, and a registration only appends to them: the entries
\* already there stay, in their order
C17_Frame == [][C17_Step]_vars

\* a dispatch ran to its end over layers and param callbacks registered before it
C17_Dispatched ==
  /\ phase = "run" /\ nreg = MaxReg /\ out # <<>> /\ inv # <<>>
  /\ \E n \in DOMAIN params.main : params.main[n] > 0

\* the layers of the outer stack that mount the application sub
C18_Mounts == {i \in 1..Len(stack.main) : stack.main[i].kind = "app"}

\* level lv is the dispatch of the mounted application or one it invoked
C18_InSub(lv) == Len(lv) >= 1 /\ lv[1] \in C18_Mounts

\* no layer of the sub-router has a path with parameters
C18_SubHasNoKeys == \A k \in 1..Len(stack.sub) : Len(Keys(stack.sub[k].path)) = 0

\* the error the outer continuation receives when a handler of the mounted
\* application called next(arg) and no later handler of it ran
C18_Produced(arg) == IF arg \in AppErrors THEN arg ELSE NoErr

\* the most recent handler belongs to the mounted application and called next
C18_SubCalledNext == last.what = "next" /\ C18_InSub(last.lv)

\* C18: app.use(path, sub) sets sub.mountpath = path and sub.parent = the outer
\* app; when the dispatch of sub finishes, req and res have the prototypes of
\* the outer application again before the outer continuation runs, and the
\* outer continuation receives the err that sub finished with
C18_MountedAppBridging ==
  /\ C18_Mounts # {} =>
       subapp = [mountpath |-> stack.main[CHOOSE i \in C18_Mounts : \A j \in C18_Mounts : j <= i].path,
                 parent |-> "outer"]
  /\ C18_Mounts = {} => subapp = [mountpath |-> P_root, parent |-> "none"]
  /\ (cur.on /\ ~C18_InSub(cur.lv)) => (proto.req = "outer" /\ proto.res = "outer")
  /\ out # <<>> => (proto.req = "outer" /\ proto.res = "outer")
  /\ (C18_SubCalledNext /\ Len(inv) > last.n /\ ~C18_InSub(inv[last.n + 1].lv))
       => /\ inv[last.n + 1].err \in {C18_Produced(last.arg), RefErr}
          /\ C18_SubHasNoKeys => inv[last.n + 1].err = C18_Produced(last.arg)
  /\ (C18_SubCalledNext /\ Len(inv) = last.n /\ out # <<>>)
       => /\ out[1] \in {C18_Produced(last.arg), RefErr}
          /\ C18_SubHasNoKeys => out[1] = C18_Produced(last.arg)

\* an OPTIONS request on an application that holds use() middleware only
C19_OnlyMiddleware ==
  /\ phase = "run" /\ req.method = "OPTIONS"
  /\ stack.main # <<>>
  /\ \A k \in 1..Len(stack.main) : stack.main[k].kind = "fn" /\ stack.main[k].arity = 3

\* every middleware that ran called next(), and some did run
C19_AllCalledNext ==
  /\ Quiescent /\ inv # <<>>
  /\ last.what = "next" /\ last.arg = NoErr /\ last.n = Len(inv)
  /\ \A m \in 1..Len(inv) : inv[m].err = NoErr

\* C19: layers registered with use() add nothing to the OPTIONS method set: an
\* OPTIONS request matched only by use() middleware, all of which call next(),
\* ends with out invoked and no automatic Allow response
C19_UseNotInOptions ==
  /\ (C19_OnlyMiddleware /\ C19_AllCalledNext)
       => (out = <<NoErr>> /\ ~res.sent /\ res.allow = <<>>)
  /\ C19_OnlyMiddleware => (res.allow = <<>> /\ ctx[<<>>].options = <<>>)

\* the activations of Route.dispatch that have advanced to the end of their stack
C20_AtEnd ==
  {rl \in DOMAIN ctx : ~IsRouter(rl) /\ ctx[rl].idx >= Len(StackOf(rl))}

\* the argument done receives when next(e) of route level rl finds no layer left
C20_DoneArg(rl, e) == dispatch_next(D, rl, e).op

\* the last handler of a Route called next(arg) and no handler ran after it
C20_LastOfRoute ==
  /\ last.what = "next" /\ ~IsRouter(last.lv)
  /\ last.i = Len(StackOf(last.lv)) /\ Len(inv) = last.n

\* C20 as stated: past the last layer of its stack Route.dispatch calls done()
\* with no error argument
C20_DoneWithoutError ==
  \A rl \in C20_AtEnd : \A e \in {NoErr} \cup AppErrors :
    C20_DoneArg(rl, e) = [name |-> "continue", lv |-> Parent(rl), arg |-> NoErr]

\* C20: past the last layer of its stack Route.dispatch calls done(err) with
\* the error that is pending there, which is undefined when none is
C20_DoneWithPendingError ==
  /\ \A rl \in C20_AtEnd : \A e \in {NoErr} \cup AppErrors :
       C20_DoneArg(rl, e) = [name |-> "continue", lv |-> Parent(rl), arg |-> e]
  /\ (C20_LastOfRoute /\ last.arg \in AppErrors /\ out # <<>>) => out[1] \in {last.arg, RefErr}

\* the only handler of a Route passed e1 to next and out received it
C20_ErrorLeftRoute ==
  /\ C20_LastOfRoute /\ last.arg = "e1"
  /\ last.lv \in C20_AtEnd
  /\ out = <<"e1">>

\* the method Route.dispatch of level rl compares layer.method with: the
\* lower-cased request method, get for a HEAD request on a Route without a
\* HEAD handler
C21_Resolved(rl) ==
  LET lower == IF req.method = "GET" THEN "get" ELSE IF req.method = "POST" THEN "post"
               ELSE IF req.method = "HEAD" THEN "head" ELSE "options"
  IN IF lower = "head" /\ "head" \notin C12_RouteOf(rl).methods THEN "get" ELSE lower

\* the layers of the Route of level rl that the request method selects
C21_Selected(rl) ==
  {k \in 1..Len(StackOf(rl)) : StackOf(rl)[k].method \in {"", C21_Resolved(rl)}}

\* the activations of Route.dispatch
C21_Routes == {rl \in DOMAIN ctx : ~IsRouter(rl)}

\* C21: Route.dispatch invokes only layers that are untagged or tagged with
\* the resolved request method, in stack order; while no error occurred in the
\* Route no selected request handler is passed over, and a layer tagged with
\* another method is never invoked
C21_MethodFilter ==
  \A rl \in C21_Routes :
    /\ C12_Invoked(rl) \subseteq C21_Selected(rl)
    /\ \A m, n \in 1..Len(inv) : (m < n /\ inv[m].lv = rl /\ inv[n].lv = rl) => inv[m].i < inv[n].i
    /\ (\A m \in 1..Len(inv) : inv[m].lv = rl => inv[m].err = NoErr)
         => \A i \in C12_Invoked(rl) : \A k \in C21_Selected(rl) :
              (k < i /\ StackOf(rl)[k].arity <= 3) => k \in C12_Invoked(rl)

\* a Route ran its first and its third layer and passed over the second, which
\* is tagged with a method the request does not have
C21_OtherMethodPassedOver ==
  \E rl \in C21_Routes :
    /\ Len(StackOf(rl)) = 3
    /\ C12_Invoked(rl) = {1, 3}
    /\ StackOf(rl)[2].method \notin {"", C21_Resolved(rl)}
    /\ StackOf(rl)[2].arity = 3

\* the names of HTTP methods, upper-cased
C22_MethodNames == {"GET", "POST", "HEAD", "OPTIONS"}

\* the Routes registered on either router
C22_AllRoutes ==
  {stack.main[k] : k \in {j \in 1..Len(stack.main) : stack.main[j].kind = "route"}}
    \cup {stack.sub[k] : k \in {j \in 1..Len(stack.sub) : stack.sub[j].kind = "route"}}

\* the upper-cased methods a Route has handlers tagged with, HEAD added for GET
C22_Answered(route) ==
  {UpperCase(m) : m \in route.methods \ {"_all"}}
    \cup (IF "get" \in route.methods THEN {"HEAD"} ELSE {})

\* C22: _options() of every Route lists each method once, lists exactly the
\* upper-cased methods the Route has handlers for, HEAD included wherever GET
\* is, and lists nothing that is not the name of an HTTP method
C22_OptionsAreMethods ==
  \A route \in C22_AllRoutes :
    /\ \A m, n \in 1..Len(route_options(route)) :
         route_options(route)[m] = route_options(route)[n] => m = n
    /\ {route_options(route)[m] : m \in 1..Len(route_options(route))} \subseteq C22_MethodNames
    /\ {route_options(route)[m] : m \in 1..Len(route_options(route))} = C22_Answered(route)

\* the activations of Router.handle
C23_Routers == {lv \in DOMAIN ctx : IsRouter(lv)}

\* layer k of router level lv is a Route whose path matches this request and
\* whose methods do not include the request method
C23_NotHandling(lv, k) ==
  /\ StackOf(lv)[k].kind = "route"
  /\ matchLayer(StackOf(lv)[k], C16_OwnPath(lv)).ret = "true"
  /\ ~handles_method(StackOf(lv)[k], req.method)

\* no error has been pending in the dispatch so far: none raised by a
\* handler, none thrown by process_params
C23_Clean ==
  /\ esc = <<>>
  /\ pcalls.accepted = 0
  /\ last.arg \notin AppErrors
  /\ \A m \in 1..Len(inv) : inv[m].err = NoErr
  /\ \A m \in 1..Len(out) : out[m] = NoErr

\* the methods of the non-handling Routes among the first k layers of level lv,
\* appended Route by Route
RECURSIVE C23_Collected(_, _)
C23_Collected(lv, k) ==
  IF k = 0 THEN <<>>
  ELSE IF C23_NotHandling(lv, k)
       THEN appendMethods(C23_Collected(lv, k - 1), route_options(StackOf(lv)[k]))
       ELSE C23_Collected(lv, k - 1)

\* C23: a Route layer that matches the path and does not handle the request
\* method is never invoked unless the method is HEAD, the scan goes on to the
\* layers after it, and for OPTIONS the methods of every such Route scanned
\* with no error pending are in the OPTIONS candidate set
C23_MethodMismatch ==
  \A lv \in C23_Routers :
    /\ \A m \in 1..Len(inv) :
         (inv[m].lv = lv /\ C23_NotHandling(lv, inv[m].i)) => req.method = "HEAD"
    /\ (C23_Clean /\ req.method = "OPTIONS")
         => ctx[lv].options = C23_Collected(lv, ctx[lv].idx)
    /\ req.method # "OPTIONS" => ctx[lv].options = <<>>

\* an OPTIONS request passed a Route that has no OPTIONS handler, took its
\* methods and then ran a later layer of the same stack
C23_PassedAndCollected ==
  /\ req.method = "OPTIONS" /\ cur.on /\ cur.lv = <<>>
  /\ \E k \in 1..(cur.i - 1) : C23_NotHandling(<<>>, k)
  /\ ctx[<<>>].options # <<>>

\* the m-th invocation is the first one after the most recent handler raised
\* a real error
C24_AfterRaise(m) == Raised /\ m = last.n + 1 /\ m <= Len(inv)

\* C24: while a real error is pending every layer the scan passes is still
\* matched against the path; a Router invokes with an error only non-route
\* layers whose path matches and whose function takes 4 parameters; and the
\* first function invoked after a handler raised an error is such an error
\* handler, or an error handler of a Route, and receives exactly that error
C24_PendingError ==
  /\ \A k \in 1..Len(stack.main) :
       (<<>> \in DOMAIN ctx /\ k <= ctx[<<>>].idx)
         => lm[<<"main", k>>] = matchLayer(stack.main[k], getPathname(req.originalUrl)).c
  /\ \A m \in 1..Len(inv) :
       (inv[m].err # NoErr /\ IsRouter(inv[m].lv))
         => /\ StackOf(inv[m].lv)[inv[m].i].kind = "fn"
            /\ C14_Arity(m) = 4
            /\ matchLayer(StackOf(inv[m].lv)[inv[m].i], C16_OwnPath(inv[m].lv)).ret = "true"
  /\ \A m \in 1..Len(inv) :
       C24_AfterRaise(m) => (inv[m].err = last.arg /\ C14_Arity(m) = 4)

\* the position in the outer stack behind which the scan went on after the
\* most recent handler acted: 0 when no handler has run
C25_Position ==
  IF last.what = "none" THEN 0 ELSE IF last.lv = <<>> THEN last.i ELSE last.lv[1]

\* the error that is pending when the outer stack is exhausted: the one the
\* most recent handler raised, else the decode error of a later layer, else none
C25_Pending ==
  IF Raised THEN last.arg
  ELSE IF \E k \in C13_Malformed : k > C25_Position THEN URIErr
  ELSE NoErr

\* the dispatch is over and no handler kept the request: none ran, or the last
\* one that ran called next or threw
C25_Exhausted ==
  /\ Quiescent /\ req.method # "OPTIONS"
  /\ last.what \in {"none", "next", "throw"}

\* C25: a dispatch of a request other than OPTIONS that runs out of layers,
\* with an empty stack, with no layer matching, or after every handler called
\* next, invokes out once, with the pending error if there is one and with no
\* error otherwise
C25_TerminalCallback == C25_Exhausted => out = <<C25_Pending>>

\* C26: for an OPTIONS request the Allow response is sent only by a Router
\* whose dispatch ends with no error pending and a non-empty candidate set,
\* and then out is not invoked; when out is invoked nothing was synthesized:
\* it receives the error that was pending at the end, and it is invoked with
\* no error only when the candidate set of the outer Router is empty
C26_OptionsOutcome ==
  (phase = "run" /\ req.method = "OPTIONS")
    => /\ res.allow # <<>>
            => /\ out = <<>> /\ res.sent /\ res.body = res.allow
               /\ \E lv \in C23_Routers : res.allow = ctx[lv].options
               /\ ~Raised
       /\ out # <<>>
            => /\ res.allow = <<>>
               /\ out[1] = NoErr => ctx[<<>>].options = <<>>
               /\ (Raised /\ Len(inv) = last.n) => out[1] \in {last.arg, RefErr}
               /\ (Raised /\ Len(inv) = last.n /\ pcalls.accepted = 0) => out[1] = last.arg

\* an OPTIONS dispatch that had collected methods ended with an error pending:
\* out received the error and no Allow response was sent
C26_ErrorWithMethodsCollected ==
  /\ req.method = "OPTIONS" /\ ctx[<<>>].options # <<>>
  /\ Raised /\ out = <<last.arg>>
  /\ ~res.sent /\ res.allow = <<>>

\* the number of frames of level lv on a call stack: the calls of its
\* continuation that are running inline, one inside the other
C27_Nested(frames, lv) == Cardinality({k \in 1..Len(frames) : frames[k].lv = lv})

\* the dispatch as the code leaves it when the running handler calls next(),
\* before the calls on the stack return
C27_AfterNext == Run(Continue([D EXCEPT !.cur = NoCur], cur.lv, NoErr))

\* the counter and the nesting of every level of d are within the limit, and
\* a level whose counter passed the limit has its continuation scheduled and
\* its counter back at zero once the calls on the stack have returned
C27_Within(d) ==
  \A lv \in DOMAIN d.ctx :
    /\ d.ctx[lv].sync <= SyncLimit + 1
    /\ C27_Nested(d.cs, lv) <= SyncLimit
    /\ d.ctx[lv].sync > SyncLimit
         => /\ ~d.cur.on
            /\ \E t \in d.pend : t.fn = "next" /\ t.lv = lv
            /\ Unwind(d).ctx[lv].sync = 0

\* a step in which the event loop runs a scheduled continuation and that
\* call reaches a handler of the same level
C27_Resumed ==
  \E t \in pend : /\ t.fn = "next" /\ t \notin pend'
                  /\ cur'.on /\ cur'.lv = t.lv

\* C27: in Router.handle and in Route.dispatch the counter of synchronous
\* re-entries never exceeds SyncLimit + 1 and at most SyncLimit calls of one
\* continuation are nested; the call that takes the counter past the limit is
\* handed to setImmediate, after SyncLimit layers were taken inline, and the
\* call the event loop then makes counts from zero again
C27_ReentrancyGuard ==
  /\ [](C27_Within(D) /\ (Running => C27_Within(C27_AfterNext)))
  /\ [](\A t \in pend : t.fn = "next" => (ctx[t.lv].sync = 0 /\ ctx[t.lv].idx >= SyncLimit))
  /\ [][C27_Resumed => ctx'[cur'.lv].sync = 1]_vars

\* the continuation of a level is scheduled after exactly SyncLimit of its
\* layers were taken inline
C27_Deferred ==
  /\ ~cur.on
  /\ \E t \in pend : t.fn = "next" /\ ctx[t.lv].idx = SyncLimit /\ ctx[t.lv].sync = 0

\* layer k of the outer stack is passed by the while loop of next: its path
\* does not match the request, or it is a Route that does not handle the method
C28_ScanSkipped(k) ==
  \/ matchLayer(stack.main[k], getPathname(req.originalUrl)).ret = "false"
  \/ C23_NotHandling(<<>>, k) /\ req.method # "HEAD"

\* a handler of a Router level is running
C28_RouterHandler == Running /\ IsRouter(cur.lv)

\* C28 as stated: whenever a layer of a Router has been invoked, the counter of
\* that dispatch is zero
C28_ResetOnInvoke == C28_RouterHandler => ctx[cur.lv].sync = 0

\* C28: the counter is not reset when a layer is invoked but when the call of
\* an accepted layer returns: while a handler runs the counter counts the
\* calls of next nested around it, the layers passed while scanning change
\* nothing, and once the handler and the calls nested in it have returned
\* the counter is zero; a call that is left by an exception (the ReferenceError
\* of process_params, thrown for every accepted layer with a path parameter)
\* does not reach its reset
C28_ResetOnReturn ==
  /\ [](C28_RouterHandler
          => /\ ctx[cur.lv].sync >= 1
             /\ ctx[cur.lv].sync >= C27_Nested(cs, cur.lv))
  /\ [](( /\ Running /\ cur.lv = <<>> /\ last.what = "none"
          /\ \A k \in 1..(cur.i - 1) : C28_ScanSkipped(k))
          => ctx[<<>>].sync = 1)
  /\ [][(C28_RouterHandler /\ ~cur'.on /\ esc' = esc /\ pcalls'.accepted = pcalls.accepted)
          => ctx'[cur.lv].sync = 0]_vars

\* two handlers of the outer stack ran one inside the other, the counter at 2,
\* the second one sent the response, and the counter is zero now that both returned
C28_BothReturned ==
  /\ last.what = "respond" /\ last.lv = <<>>
  /\ Len(inv) = 2 /\ inv[1].lv = <<>> /\ inv[2].lv = <<>>
  /\ ~cur.on /\ pend = {} /\ ctx[<<>>].sync = 0

\* the number of positional keys 0..n-1 of a params object
C29_Count(obj) == Cardinality((DOMAIN obj) \cap PositionalKeys)

\* what the merge of child and parent is to be, both with positional keys:
\* the parent's values, then the child's in their order, and the named keys of
\* both with the child's value where both have the name
C29_Renumbered(child, parent) ==
  [k \in {Key(j) : j \in 0..(C29_Count(parent) + C29_Count(child) - 1)}
           \cup (((DOMAIN child) \cup (DOMAIN parent)) \ PositionalKeys) |->
     IF k \in PositionalKeys
     THEN (IF k \in {Key(j) : j \in 0..(C29_Count(parent) - 1)}
           THEN parent[k]
           ELSE child[Key((CHOOSE j \in 0..(2 * MaxPositional) : Key(j) = k) - C29_Count(parent))])
     ELSE IF k \in DOMAIN child THEN child[k] ELSE parent[k]]

\* the plain merge: the keys of both, the child's value where both have the key
C29_Plain(child, parent) ==
  [k \in (DOMAIN child) \cup (DOMAIN parent) |-> IF k \in DOMAIN child THEN child[k] ELSE parent[k]]

\* what one step does when it assigns req.params from layer.params and parentParams
C29_Step ==
  (phase = "setup" /\ phase' = "run" /\ ctx[<<>>].parentParams.def)
    => req'.params =
         Defined(IF C29_Count(lm[<<"main", 1>>].params) >= 1
                    /\ C29_Count(ctx[<<>>].parentParams.v) >= 1
                 THEN C29_Renumbered(lm[<<"main", 1>>].params, ctx[<<>>].parentParams.v)
                 ELSE C29_Plain(lm[<<"main", 1>>].params, ctx[<<>>].parentParams.v))

\* C29: with mergeParams enabled, a child with positional keys 0..n-1 merged
\* into a parent with positional keys 0..o-1 gives the parent's values at
\* 0..o-1 and the child's, in their order, at o..o+n-1, with no gap and no
\* value lost; named keys are merged with the child's value winning; when
\* either side has no positional key the result is the plain merge
C29_ParamMerge == [][C29_Step]_vars

\* two positional captures were merged into a parent with two positional and
\* one named value: the result has 0..3 and the name
C29_FourPositional ==
  /\ phase = "run"
  /\ req.params.def
  /\ DOMAIN req.params.v = {"0", "1", "2", "3", "id"}
  /\ ctx[<<>>].parentParams.def
  /\ DOMAIN ctx[<<>>].parentParams.v = {"0", "1", "id"}
  /\ req.params.v["0"] = ctx[<<>>].parentParams.v["0"]
  /\ req.params.v["2"] # req.params.v["3"]

\* a layer whose path captures `id` was accepted in this dispatch: every
\* layer with keys on the stacks is a '/:id' layer and one was handed to
\* process_params
C30_IdAccepted ==
  /\ pcalls.accepted >= 1
  /\ \A s \in DOMAIN stack : \A k \in 1..Len(stack[s]) : stack[s][k].path # P_star

\* the handler of a layer with keys has been invoked
C30_KeyedInvoked ==
  \E m \in 1..Len(inv) :
    IsRouter(inv[m].lv) /\ Len(Keys(StackOf(inv[m].lv)[inv[m].i].path)) # 0

\* C30: once a layer capturing `id` is accepted, process_params invokes the
\* callbacks registered with param('id', fn), the first registered one first,
\* and the handler of a layer with keys is invoked only after the callbacks
\* of its keys were
C30_ParamOrder ==
  /\ (C30_IdAccepted /\ params.main["id"] > 0) => pcalls.invoked >= 1
  /\ (C30_KeyedInvoked /\ params.main["id"] > 0) => pcalls.invoked >= 1

\* an error value that no handler passed or threw and no path decoding
\* produced: it can only come out of process_params
C31_FromParams(e) == e \notin AppErrors \cup {NoErr, ErrRoute, ErrRouter, URIErr}

\* C31: an exception that arises while process_params resolves the keys of a
\* layer is one a param callback threw, caught and handed to done: an error
\* handler or `out` receives such an error only after a callback was invoked
C31_CallbackExceptionCaught ==
  /\ \A m \in 1..Len(inv) : C31_FromParams(inv[m].err) => pcalls.invoked >= 1
  /\ \A k \in 1..Len(out) : C31_FromParams(out[k]) => pcalls.invoked >= 1

\* C32: process_params never throws to its caller: whatever keys the accepted
\* layer has and whatever callbacks are registered, it ends by invoking done,
\* so no exception that arose in process_params leaves Router.handle
C32_DoneExactlyOnce == \A k \in 1..Len(esc) : ~C31_FromParams(esc[k])

\* C33: when a second layer capturing `id` is accepted in the same dispatch
\* with the same captured value, the earlier resolution is replayed: the
\* callbacks registered for id have run for the first layer, at least the
\* first of them, and none of them runs a second time
C33_Replay ==
  (C30_IdAccepted /\ pcalls.accepted >= 2 /\ params.main["id"] > 0)
    => (pcalls.invoked >= 1 /\ pcalls.invoked <= params.main["id"])

\* the layer and the path of the match under way, and its result
C34_Layer == stack.main[1]
C34_Result == match(C34_Layer, req.url)
C34_FastSlash == C34_Layer.path = P_root /\ ~C34_Layer.end
C34_FastStar == ~C34_FastSlash /\ C34_Layer.path = P_star

\* a layer '/' with end = false matches every path there is with params {} and
\* matched path ''; a result of false resets params and path to undefined
C34_SlashAndReset ==
  /\ (C34_FastSlash /\ req.url # NoPath)
       => /\ C34_Result.ret = "true"
          /\ lm'[<<"main", 1>>] = Cache(TRUE, NoParams, TRUE, <<>>)
  /\ C34_Result.ret = "false" => lm'[<<"main", 1>>] = NoCache

\* the original statement: a layer '*' matches every path there is
C34_Original ==
  /\ C34_SlashAndReset
  /\ (C34_FastStar /\ req.url # NoPath)
       => /\ C34_Result.ret = "true"
          /\ lm'[<<"main", 1>>] =
               Cache(TRUE, [k \in {"0"} |-> decodeURIComponent(req.url)], TRUE, req.url)

\* the statement as the code has it
C34_Amended ==
  /\ C34_SlashAndReset
  /\ (C34_FastStar /\ req.url # NoPath /\ decodeOk(req.url))
       => /\ C34_Result.ret = "true"
          /\ lm'[<<"main", 1>>] =
               Cache(TRUE, [k \in {"0"} |-> decodeURIComponent(req.url)], TRUE, req.url)
  /\ (C34_FastStar /\ req.url # NoPath /\ ~decodeOk(req.url))
       => /\ C34_Result.ret = URIErr
          /\ lm'[<<"main", 1>>] = lm[<<"main", 1>>]

C35_Saved ==
  (phase = "setup" /\ phase' = "run")
    => ctx'[<<>>].saved = [baseUrl |-> req.baseUrl, next |-> req.next, params |-> req.params]

\* what handle saved stays as it is for the whole dispatch
C35_Kept == <<>> \in DOMAIN ctx => ctx'[<<>>].saved = ctx[<<>>].saved

\* a call of out finds the saved values back on req
C35_AtOut ==
  Len(out') > Len(out)
    => /\ req'.baseUrl = ctx'[<<>>].saved.baseUrl
       /\ req'.next = ctx'[<<>>].saved.next
       /\ req'.params = ctx'[<<>>].saved.params

\* C35: when out is invoked, req.baseUrl, req.params and req.next hold the
\* values they had when handle was entered, whatever ran in between and
\* however the dispatch ended
C35_Restored == [][C35_Saved /\ C35_Kept /\ C35_AtOut]_vars

\* out was invoked after a handler of a sub-router ran with req.baseUrl
\* '/x/a', and req holds what the enclosing router had left there
C35_RestoredAfterMount ==
  /\ Len(out) = 1
  /\ \E m \in 1..Len(inv) : Len(inv[m].lv) = 1 /\ IsRouter(inv[m].lv)
  /\ req.baseUrl = Defined(<<"/", "x">>) /\ req.next = <<9>>
  /\ req.params = Defined([k \in {"id"} |-> <<"b">>])

\* C36: a request whose pathname cannot be parsed is matched against no
\* layer and no layer is invoked; no exception leaves handle; no response is
\* sent; out is invoked once with no error, at once or, for an empty stack,
\* by the deferred done
C36_Unroutable ==
  (phase = "run" /\ req.originalUrl = U_none)
    => /\ inv = <<>> /\ esc = <<>> /\ ~cur.on /\ ~res.sent
       /\ \A k \in DOMAIN lm : lm[k] = NoCache
       /\ \/ out = <<NoErr>> /\ pend = {}
          \/ out = <<>> /\ Len(stack.main) = 0 /\ Cardinality(pend) = 1

\* the request without a url went through a router whose first layer matches
\* every path, and out was invoked
C36_HandedToOut ==
  /\ phase = "run" /\ req.originalUrl = U_none
  /\ Len(stack.main) >= 2 /\ stack.main[1] = Mw(P_root, 3)
  /\ out = <<NoErr>>

\* C37: a call of use, all or METHOD that throws leaves the router's stack,
\* the route's stack and the route's methods as they were before the call
C37_AllOrNothing == [][Len(esc') > Len(esc) => stack' = stack]_vars

\* C38: a second accepted layer capturing `id` either replays what the first
\* resolution stored or invokes the callbacks again: with callbacks registered
\* for id at least one of them has been invoked by then, and with none
\* registered nothing was stored, so no error comes out of process_params
C38_ReResolution ==
  (C30_IdAccepted /\ pcalls.accepted >= 2)
    => /\ params.main["id"] > 0 => pcalls.invoked >= 1
       /\ params.main["id"] = 0
            => /\ \A k \in 1..Len(esc) : ~C31_FromParams(esc[k])
               /\ \A m \in 1..Len(inv) : ~C31_FromParams(inv[m].err)
               /\ \A k \in 1..Len(out) : ~C31_FromParams(out[k])

\* what belongs to one request: everything the dispatch holds except the
\* layers' match results, which every request on the router writes
C39_Own(d) ==
  [req |-> d.req, ctx |-> d.ctx, cs |-> d.cs, cur |-> d.cur, pend |-> d.pend, res |-> d.res,
   out |-> d.out, esc |-> d.esc, inv |-> d.inv, pcalls |-> d.pcalls, proto |-> d.proto]

\* the request with the layers as no other request had touched them
C39_Alone == [D EXCEPT !.lm = [k \in DOMAIN lm |-> NoCache]]

\* every way the request can go on from d: the running handler calls next or
\* throws, a kept next is called, a deferred call runs
C39_After(d, kind, t, arg) ==
  IF kind = "next" THEN C39_Own(Settle(Continue([d EXCEPT !.cur = NoCur], d.cur.lv, arg)))
  ELSE IF kind = "throw" THEN C39_Own(Settle(Throw(d, arg)))
  ELSE IF kind = "kept" THEN C39_Own(Settle(Continue([d EXCEPT !.pend = @ \ {t}], t.lv, arg)))
  ELSE C39_Own(Settle(Call([d EXCEPT !.pend = @ \ {t}],
                           IF t.fn = "done" THEN "done" ELSE "continue", t.lv, t.arg)))

\* C39: whatever a second request in flight on the same router has done to
\* the layers they share, each step of this request leaves its invoked
\* handlers, pending error, params, OPTIONS methods and outcome exactly as the
\* same step does when the request is dispatched alone
C39_Isolation ==
  phase = "run" =>
    /\ cur.on => /\ \A arg \in NextArgs :
                      C39_After(D, "next", 0, arg) = C39_After(C39_Alone, "next", 0, arg)
                 /\ C39_After(D, "throw", 0, "e2") = C39_After(C39_Alone, "throw", 0, "e2")
    /\ ~cur.on => \A t \in pend :
                    IF t.fn = "hnext"
                    THEN \A arg \in NextArgs :
                           C39_After(D, "kept", t, arg) = C39_After(C39_Alone, "kept", t, arg)
                    ELSE C39_After(D, "tick", t, NoErr) = C39_After(C39_Alone, "tick", t, NoErr)

\* a layer of the outer stack holds the result of the second request's match
\* and this request has gone on to invoke a second handler or to end
C39_Interleaved ==
  /\ \E i \in 1..Len(stack.main) :
       /\ lm[<<"main", i>>] # NoCache
       /\ lm[<<"main", i>>] # matchLayer(stack.main[i], C16_OwnPath(<<>>)).c
  /\ Len(inv) >= 2
  /\ Len(out) = 1

\* the dispatch after the step, as a record
C40_Reached ==
  [req |-> req', ctx |-> ctx', lm |-> lm', cs |-> cs', cur |-> cur', pend |-> pend',
   res |-> res', out |-> out', esc |-> esc', inv |-> inv', pcalls |-> pcalls', proto |-> proto',
   op |-> Halt]

\* the event loop runs the calls of next that the guard deferred, until a
\* handler is reached or none is left
RECURSIVE C40_Resumed(_)
C40_Resumed(d) ==
  IF d.cur.on \/ ~\E t \in d.pend : t.fn = "next" THEN d
  ELSE LET t == CHOOSE u \in d.pend : u.fn = "next"
       IN C40_Resumed(Settle(Continue([d EXCEPT !.pend = @ \ {t}], t.lv, t.arg)))

\* the dispatch with the counters of its levels so low that the guard of
\* these levels cannot fire in one synchronous run
C40_Unguarded(d) ==
  [d EXCEPT !.ctx = [l \in DOMAIN d.ctx |-> [d.ctx[l] EXCEPT !.sync = 0 - 2 * SyncLimit]]]

\* what a dispatch has come to: the layers invoked, the handler reached and
\* its error argument, the index of every level, the calls still pending,
\* the response, the calls of out and what was thrown out of the dispatch
C40_Course(d) ==
  [inv |-> d.inv, cur |-> d.cur, idx |-> [l \in DOMAIN d.ctx |-> d.ctx[l].idx],
   pend |-> d.pend, res |-> d.res, out |-> d.out, esc |-> d.esc, params |-> d.req.params]

\* a running handler called next(arg) and the guard deferred a call of next
C40_DeferredInStep ==
  /\ phase = "run" /\ cur.on
  /\ last' # last /\ last'.what = "next"
  /\ \E t \in pend' : t.fn = "next"

\* C40: when the guard defers a call of next, the dispatch resumed on a later
\* tick comes to the same layers invoked, the same handler with the same
\* error, the same indices and the same outcome as the handler's call of next
\* does when the guard does not fire
C40_DeferralLosesNothing ==
  [][C40_DeferredInStep
       => C40_Course(C40_Resumed(C40_Reached))
            = C40_Course(C40_Resumed(Settle(Continue([C40_Unguarded(D) EXCEPT !.cur = NoCur],
                                                     cur.lv, last'.arg))))]_vars
====
